---- MODULE Spec2Model ----
(***************************************************************************)
(* A model of shyim/go-notifier: the Notifier dispatcher (notifier.go),    *)
(* the transport factory registry and its read-write lock (transport.go),  *)
(* the DSN parser (dsn.go), the provider factories and the endpoint        *)
(* resolution of the transports.                                           *)
(*                                                                         *)
(* Six specifications share the module's variables; each drives one       *)
(* part of the program and leaves the variables of the others at rest:     *)
(*   SpecNotifier   Notifier.Send and Notifier.SendAll                     *)
(*   SpecRegistry   concurrent RegisterTransportFactory /                  *)
(*                  NewTransportFromDSN                                    *)
(*   SpecProvider   NewDSN, the provider factories' Create, SetHost /      *)
(*                  SetPort and the transports' getEndpoint                *)
(*   SpecTransport  Transport.Send of the five providers                    *)
(*   SpecOptions    the Options builders' bounded collections and ToMap     *)
(*   SpecConcurrent goroutines calling one transport's Send with one        *)
(*                  message                                                 *)
(***************************************************************************)
EXTENDS Integers, Sequences, FiniteSets, TLC

VARIABLES
    \* ---- Notifier (notifier.go)
    transports,   \* Notifier.transports: the transports in construction order
    npc,          \* position of the running Notifier call: "idle" | "sendall"
    msg,          \* the message of the running SendAll
    ni,           \* SendAll's loop index into transports
    results,      \* SendAll's local results slice
    calls,        \* the transport.Send calls the last Notifier call has made
    ret,          \* what the last Notifier call returned
    \* ---- one DSN through NewDSN, a factory's Create and getEndpoint
    ppc,          \* "off" | "start" | "parsed" | "created" | "resolved"
    input,        \* the connection string
    parsed,       \* what NewDSN returned: [err, dsn]
    factory,      \* the provider whose TransportFactory.Create was called
    created,      \* what Create returned: [tr, err]
    endpoint,     \* what the transport's getEndpoint returned
    httpRequests, \* number of HTTP requests issued so far
    \* ---- the factory registry (transport.go) and the goroutines using it
    transportFactories,  \* the registered factories, in slice order
    rwWriter,     \* goroutine holding transportFactoriesMu for writing, or 0
    rwReaders,    \* goroutines holding transportFactoriesMu for reading
    rpc,          \* each goroutine's position in its registry call
    rloc,         \* each goroutine's arguments, locals and result
    completed,    \* the factories whose registration has returned, in order
    regStarted,   \* number of RegisterTransportFactory calls made so far
    \* ---- one transport, one message and the Send calls made with them
    spc,          \* "off" | "idle" | "inflight" (in client.Do) | "reading" (the body)
    xport,        \* the transport: provider, host, port and credentials
    smsg,         \* the message, with the Options objects registered on it
    ctx,          \* the context of the running Send: "nil" | "live" | "canceled" | "deadline"
    call,         \* locals and return values of the running or last Send
    requests,     \* number of client.Do calls made so far
    sends,        \* number of Send calls made so far
    \* ---- one Options builder object (slack, discord) and the calls on it
    opc,          \* "off" | "building"
    builder,      \* which builder: slack Options / SectionBlock, discord Options / Embed
    items,        \* its repeated collection: blocks, fields or embeds
    adds,         \* number of add calls made on it so far
    omap,         \* the collection as the last ToMap stored it in the map
    \* ---- goroutines that call Send on one transport with one message
    gpc,          \* each goroutine's position in Send
    gloc          \* each goroutine's arguments and locals

nvars == <<transports, npc, msg, ni, results, calls, ret>>

pvars == <<ppc, input, parsed, factory, created, endpoint, httpRequests>>

rvars == <<transportFactories, rwWriter, rwReaders, rpc, rloc, completed, regStarted>>

svars == <<spc, xport, smsg, ctx, call, requests, sends>>

ovars == <<opc, builder, items, adds, omap>>

cvars == <<gpc, gloc>>

vars == <<nvars, pvars, rvars, svars, ovars, cvars>>

----------------------------------------------------------------------------
(* Bounds *)

\* longest transport list a Notifier is constructed with
MaxTransports == 3

\* number of RegisterTransportFactory calls in a run
MaxRegistrations == 3

\* number of add calls made on one Options builder
MaxAdds == 52

\* number of Send calls made on one transport
MaxSends == 2

\* number of goroutines that call Send at the same time
MaxGoroutines == 2

----------------------------------------------------------------------------
(* Values *)

\* the error value nil
NoErr == [kind |-> "nil", at |-> 0]

Err(kind) == [kind |-> kind, at |-> 0]

\* the error a transport's Send returns; `at` tells the transports apart
TransportErr(i) == [kind |-> "transport send failed", at |-> i]

\* the *SentMessage nil
NilSent == [transport |-> "", at |-> 0]

\* the concrete kinds of MessageInterface values: ChatMessage and any other
Kinds == {"ChatMessage", "OtherMessage"}

\* the String() values of the configured transports
TransportNames == {"slack://slack.com?channel=C1", "telegram://api.telegram.org"}

\* values of message.GetTransport(): none, or the String() of some transport
\* (which the Notifier at hand may or may not hold)
TargetNames == {""} \cup TransportNames

Messages == [kind : Kinds, transport : TargetNames]

\* what a transport's Supports accepts: ChatMessage only (every transport of
\* the repository), or every message (another TransportInterface value)
SupportSets == {{"ChatMessage"}, Kinds}

\* a transport as the Notifier sees it: its String() and what it Supports
TransportCfgs == [name : TransportNames, kinds : SupportSets]

TransportLists == UNION {[1..n -> TransportCfgs] : n \in 0..MaxTransports}

----------------------------------------------------------------------------
(* Strings *)

\* A string of the program is a sequence of tokens: the delimiters of the DSN
\* format, one token each, and atoms, the runs of characters between them
\* (in a connection string two atoms are never adjacent). "" is <<>>.
Delims == {":", "/", "?", "@", "&", "="}

Str(a) == <<a>>

\* strings.Index / strings.LastIndex for a one-character needle; 0 is -1
RECURSIVE IndexFrom(_, _, _)
IndexFrom(s, t, i) ==
    IF i > Len(s) THEN 0
    ELSE IF s[i] = t THEN i
    ELSE IndexFrom(s, t, i + 1)

Index(s, t) == IndexFrom(s, t, 1)

RECURSIVE LastIndexFrom(_, _, _)
LastIndexFrom(s, t, i) ==
    IF i < 1 THEN 0
    ELSE IF s[i] = t THEN i
    ELSE LastIndexFrom(s, t, i - 1)

LastIndex(s, t) == LastIndexFrom(s, t, Len(s))

\* s[:i-1] and s[i+1:] around the token at i
Before(s, i) == SubSeq(s, 1, i - 1)

After(s, i) == SubSeq(s, i + 1, Len(s))

\* strings.HasPrefix
HasPrefix(s, p) == Len(s) >= Len(p) /\ SubSeq(s, 1, Len(p)) = p

\* strings.Contains for a string needle
Contains(s, sub) ==
    \E i \in 1..(Len(s) - Len(sub) + 1) : SubSeq(s, i, i + Len(sub) - 1) = sub

----------------------------------------------------------------------------
(* NewDSN (dsn.go) over net/url *)

\* atoms made of decimal digits only, with their strconv.Atoi value; -1 is
\* Atoi's range error
DigitAtoms == {"0", "80", "8080", "080", "99999999999999999999"}

Atoi(a) ==
    CASE a = "0" -> 0
      [] a = "80" -> 80
      [] a = "8080" -> 8080
      [] a = "080" -> 80
      [] OTHER -> -1

\* fmt's %d
Itoa(n) ==
    CASE n = 80 -> "80"
      [] n = 8080 -> "8080"
      [] OTHER -> "0"

\* atoms that getScheme rejects as a scheme: they start with a digit or hold a
\* character other than letters, digits, "+", "-" and "."
NonSchemeAtoms == DigitAtoms \cup {"webhook_id", "1", "123456"}

\* url.getScheme's scan of the characters before the first ":"
SchemeAtom(a) == a \notin Delims /\ a \notin NonSchemeAtoms

\* strings.ToLower on a scheme
ToLower(a) == IF a = "SLACK" THEN "slack" ELSE a

\* the error value nil of the DSN layer, and an error with its message
NoError == <<>>

\* url.getScheme: [err, scheme, rest]
GetScheme(raw) ==
    IF raw = <<>> THEN [err |-> FALSE, scheme |-> <<>>, rest |-> raw]
    ELSE IF raw[1] = ":" THEN [err |-> TRUE, scheme |-> <<>>, rest |-> raw]
    ELSE IF SchemeAtom(raw[1]) /\ Len(raw) >= 2 /\ raw[2] = ":"
         THEN [err |-> FALSE, scheme |-> Str(raw[1]), rest |-> After(raw, 2)]
    ELSE [err |-> FALSE, scheme |-> <<>>, rest |-> raw]

\* url.validOptionalPort on what follows the last ":" of the host
ValidOptionalPort(p) == p = <<>> \/ (Len(p) = 1 /\ p[1] \in DigitAtoms)

\* url.parseAuthority with url.parseHost: [err, hasUser, user, password, host]
ParseAuthority(auth) ==
    LET i == LastIndex(auth, "@")
        host == IF i = 0 THEN auth ELSE After(auth, i)
        j == LastIndex(host, ":")
        userinfo == Before(auth, i)
        c == Index(userinfo, ":")
    IN  IF j # 0 /\ ~ValidOptionalPort(After(host, j))
        THEN [err |-> TRUE, hasUser |-> FALSE, user |-> <<>>, password |-> <<>>,
              host |-> <<>>]
        ELSE IF i = 0
        THEN [err |-> FALSE, hasUser |-> FALSE, user |-> <<>>, password |-> <<>>,
              host |-> host]
        ELSE IF c = 0
        THEN [err |-> FALSE, hasUser |-> TRUE, user |-> userinfo, password |-> <<>>,
              host |-> host]
        ELSE [err |-> FALSE, hasUser |-> TRUE, user |-> Before(userinfo, c),
              password |-> After(userinfo, c), host |-> host]

\* url.Parse: [err, scheme, hasUser, user, password, host, path, rawQuery]
\* (the inputs hold no "#", "%", "[" or control character)
UrlParse(raw) ==
    LET g == GetScheme(raw)
        q == Index(g.rest, "?")
        rest == IF q = 0 THEN g.rest ELSE Before(g.rest, q)
        rawQuery == IF q = 0 THEN <<>> ELSE After(g.rest, q)
        failed == [err |-> TRUE, scheme |-> <<>>, hasUser |-> FALSE, user |-> <<>>,
                   password |-> <<>>, host |-> <<>>, path |-> <<>>, rawQuery |-> <<>>]
        scheme == IF g.scheme = <<>> THEN <<>> ELSE Str(ToLower(g.scheme[1]))
    IN  IF g.err THEN failed
        ELSE IF ~HasPrefix(rest, <<"/">>)
        THEN IF scheme # <<>>
             THEN \* a rootless path: the rest is u.Opaque
                  [err |-> FALSE, scheme |-> scheme, hasUser |-> FALSE, user |-> <<>>,
                   password |-> <<>>, host |-> <<>>, path |-> <<>>,
                   rawQuery |-> rawQuery]
             ELSE IF Index(rest, ":") # 0
                     /\ (Index(rest, "/") = 0 \/ Index(rest, ":") < Index(rest, "/"))
                  THEN failed   \* first path segment in URL cannot contain colon
                  ELSE [err |-> FALSE, scheme |-> <<>>, hasUser |-> FALSE,
                        user |-> <<>>, password |-> <<>>, host |-> <<>>,
                        path |-> rest, rawQuery |-> rawQuery]
        ELSE IF HasPrefix(rest, <<"/", "/">>)
                /\ (scheme # <<>> \/ ~HasPrefix(rest, <<"/", "/", "/">>))
        THEN LET ar == After(rest, 2)
                 k == Index(ar, "/")
                 auth == IF k = 0 THEN ar ELSE Before(ar, k)
                 path == IF k = 0 THEN <<>> ELSE SubSeq(ar, k, Len(ar))
                 a == ParseAuthority(auth)
             IN  IF a.err THEN failed
                 ELSE [err |-> FALSE, scheme |-> scheme, hasUser |-> a.hasUser,
                       user |-> a.user, password |-> a.password, host |-> a.host,
                       path |-> path, rawQuery |-> rawQuery]
        ELSE [err |-> FALSE, scheme |-> scheme, hasUser |-> FALSE, user |-> <<>>,
              password |-> <<>>, host |-> <<>>, path |-> rest, rawQuery |-> rawQuery]

\* u.Port(): the digits after the last ":" of u.Host
UrlPort(host) ==
    LET j == LastIndex(host, ":") IN IF j = 0 THEN <<>> ELSE After(host, j)

\* u.Hostname(): u.Host without ":port"
UrlHostname(host) ==
    LET j == LastIndex(host, ":") IN IF j = 0 THEN host ELSE Before(host, j)

\* u.Host itself, port and all: what NewDSN tests against ""
UrlHost(host) == host

\* url.ParseQuery: every key with the list of its values, in order of appearance
RECURSIVE ParseQuery(_, _)
ParseQuery(q, m) ==
    IF q = <<>> THEN m
    ELSE LET a == Index(q, "&")
             seg == IF a = 0 THEN q ELSE Before(q, a)
             tail == IF a = 0 THEN <<>> ELSE After(q, a)
             e == Index(seg, "=")
             key == IF e = 0 THEN seg ELSE Before(seg, e)
             val == IF e = 0 THEN <<>> ELSE After(seg, e)
         IN  IF seg = <<>> THEN ParseQuery(tail, m)
             ELSE IF key \in DOMAIN m
             THEN ParseQuery(tail, [m EXCEPT ![key] = Append(@, val)])
             ELSE ParseQuery(tail, [k \in DOMAIN m \cup {key} |->
                                       IF k = key THEN <<val>> ELSE m[k]])

\* the empty map
EmptyMap == [k \in {} |-> <<>>]

\* options[k] = v[0] for every key of the query
DSNOptions(rawQuery) ==
    LET query == ParseQuery(rawQuery, EmptyMap)
    IN  [k \in {x \in DOMAIN query : Len(query[x]) > 0} |-> query[k][1]]

\* the DSN nil
NilDSN ==
    [scheme |-> <<>>, host |-> <<>>, user |-> <<>>, password |-> <<>>, port |-> 0,
     path |-> <<>>, options |-> EmptyMap, originalDSN |-> <<>>]

\* `if u.Host == ""`
NewDSNHostCheck(u) == UrlHost(u.host) = <<>>

\* NewDSN(dsn): [err, dsn]
NewDSN(raw) ==
    LET u == UrlParse(raw)
        p == UrlPort(u.host)
    IN  IF u.err THEN [err |-> Str("invalid DSN"), dsn |-> NilDSN]
        ELSE IF u.scheme = <<>>
        THEN [err |-> Str("DSN must contain a scheme"), dsn |-> NilDSN]
        ELSE IF NewDSNHostCheck(u)
        THEN [err |-> Str("DSN must contain a host (use 'default' by default)"),
              dsn |-> NilDSN]
        ELSE IF p # <<>> /\ Atoi(p[1]) < 0
        THEN [err |-> Str("invalid port"), dsn |-> NilDSN]
        ELSE [err |-> NoError,
              dsn |-> [scheme |-> u.scheme,
                       host |-> UrlHostname(u.host),
                       user |-> u.user,
                       password |-> u.password,
                       port |-> IF p = <<>> THEN 0 ELSE Atoi(p[1]),
                       path |-> u.path,
                       options |-> DSNOptions(u.rawQuery),
                       originalDSN |-> raw]]

\* DSN.GetOption(key): "" when the key is absent
GetOption(d, key) == IF Str(key) \in DOMAIN d.options THEN d.options[Str(key)] ELSE <<>>

\* DSN.GetPort() without a default
GetPort(d) == IF d.port > 0 THEN d.port ELSE 0

----------------------------------------------------------------------------
(* The transports' addressing (transport.go and each provider's transport.go) *)

Providers == {"slack", "discord", "telegram", "microsoftteams", "gotify"}

\* a transport of any provider; the fields a provider lacks stay ""
NilTransport ==
    [provider |-> "nil", host |-> <<>>, port |-> 0, token |-> <<>>,
     channel |-> <<>>, webhookID |-> <<>>, webhookURL |-> <<>>]

\* NewAbstractTransport: host "" and port 0 until SetHost / SetPort
NewTransport(provider) == [NilTransport EXCEPT !.provider = provider]

\* AbstractTransport.SetHost / SetPort
SetHost(t, host) == [t EXCEPT !.host = host]

SetPort(t, port) == [t EXCEPT !.port = port]

\* AbstractTransport.GetEndpoint
GetEndpoint(t) ==
    LET host == IF t.host = <<>> THEN Str("localhost") ELSE t.host
    IN  IF t.port > 0 THEN host \o <<":", Itoa(t.port)>> ELSE host

\* the host each provider's getEndpoint falls back to
DefaultHost(provider) ==
    CASE provider = "slack" -> Str("slack.com")
      [] provider = "discord" -> Str("discord.com")
      [] provider = "telegram" -> Str("api.telegram.org")
      [] provider = "microsoftteams" -> Str("webhook.office.com")
      [] OTHER -> Str("gotify-server-required.com")

\* Transport.getEndpoint, the same in every provider but for the default host
getEndpoint(t) ==
    LET e == GetEndpoint(t)
    IN  IF e = <<>> \/ e = Str("localhost") THEN DefaultHost(t.provider) ELSE e

\* Transport.String() of each provider
String(t) ==
    CASE t.provider = "slack" ->
            Str("slack://") \o getEndpoint(t)
                \o (IF t.channel # <<>> THEN Str("?channel=") \o t.channel ELSE <<>>)
      [] t.provider = "discord" ->
            Str("discord://") \o getEndpoint(t) \o Str("?webhook_id=") \o t.webhookID
      [] t.provider = "telegram" ->
            Str("telegram://") \o getEndpoint(t)
                \o (IF t.channel # <<>> THEN Str("?channel=") \o t.channel ELSE <<>>)
      [] t.provider = "microsoftteams" -> Str("microsoftteams://") \o getEndpoint(t)
      [] OTHER -> Str("gotify://") \o getEndpoint(t)

\* the URL that Send posts to; method is the API method Send selected
RequestURL(t, method) ==
    CASE t.provider = "slack" ->
            Str("https://") \o getEndpoint(t) \o Str("/api/") \o Str(method)
      [] t.provider = "discord" ->
            Str("https://") \o getEndpoint(t) \o Str("/api/webhooks/")
                \o t.webhookID \o Str("/") \o t.token
      [] t.provider = "telegram" ->
            Str("https://") \o getEndpoint(t) \o Str("/bot") \o t.token
                \o Str("/") \o Str(method)
      [] t.provider = "microsoftteams" ->
            IF t.webhookURL # <<>> THEN t.webhookURL ELSE getEndpoint(t)
      [] OTHER -> Str("https://") \o getEndpoint(t) \o Str("/message")

----------------------------------------------------------------------------
(* The provider factories *)

\* GetSupportedSchemes
GetSupportedSchemes(f) == <<Str(f)>>

\* TransportFactory.Supports
FactorySupports(f, d) ==
    \E i \in 1..Len(GetSupportedSchemes(f)) : d.scheme = GetSupportedSchemes(f)[i]

\* the first check of every Create
UnsupportedScheme(f, d) ==
    Str("unsupported scheme: scheme \"") \o d.scheme
        \o Str("\" not supported (supported: ") \o GetSupportedSchemes(f)[1]
        \o Str("). DSN: ") \o d.originalDSN

\* fmt.Errorf("incomplete DSN: <what>. DSN: %s", dsn.GetOriginalDSN())
IncompleteDSN(what, d) == Str(what) \o d.originalDSN

\* atoms that match validTokenPattern, ^xox(b-|p-|a-2)
XoxAtoms == {"xoxb-1", "xoxp-1", "xoxa-2-1"}

ValidToken(user) == user # <<>> /\ user[1] \in XoxAtoms

\* the tail shared by the slack, discord, telegram and gotify Create:
\* "default" is the empty host; host and port are set only when given
WithAddress(t, d) ==
    LET host == IF d.host = Str("default") THEN <<>> ELSE d.host
        port == GetPort(d)
        th == IF host # <<>> THEN SetHost(t, host) ELSE t
    IN  IF port > 0 THEN SetPort(th, port) ELSE th

Failed(err) == [tr |-> NilTransport, err |-> err]

CreateSlack(d) ==
    IF d.scheme # Str("slack") THEN Failed(UnsupportedScheme("slack", d))
    ELSE IF d.user = <<>>
    THEN Failed(IncompleteDSN("incomplete DSN: Missing access token. DSN: ", d))
    ELSE IF ~ValidToken(d.user)
    THEN Failed(IncompleteDSN("incomplete DSN: Invalid Slack token format. Must start with xoxb-, xoxp-, or xoxa-2. DSN: ", d))
    ELSE [tr |-> WithAddress([NewTransport("slack") EXCEPT
                                 !.token = d.user,
                                 !.channel = GetOption(d, "channel")], d),
          err |-> NoError]

CreateDiscord(d) ==
    IF d.scheme # Str("discord") THEN Failed(UnsupportedScheme("discord", d))
    ELSE IF d.user = <<>>
    THEN Failed(IncompleteDSN("incomplete DSN: Missing token. DSN: ", d))
    ELSE IF GetOption(d, "webhook_id") = <<>>
    THEN Failed(Str("missing required option: webhook_id"))
    ELSE [tr |-> WithAddress([NewTransport("discord") EXCEPT
                                 !.token = d.user,
                                 !.webhookID = GetOption(d, "webhook_id")], d),
          err |-> NoError]

CreateTelegramAnyScheme(d) ==
    IF d.user = <<>>
    THEN Failed(IncompleteDSN("incomplete DSN: Missing token. DSN: ", d))
    ELSE [tr |-> WithAddress([NewTransport("telegram") EXCEPT
                                 !.token = IF d.password # <<>>
                                           THEN d.user \o <<":">> \o d.password
                                           ELSE d.user,
                                 !.channel = GetOption(d, "channel")], d),
          err |-> NoError]

CreateTelegram(d) ==
    IF d.scheme # Str("telegram") THEN Failed(UnsupportedScheme("telegram", d))
    ELSE IF d.user = <<>>
    THEN Failed(IncompleteDSN("incomplete DSN: Missing token. DSN: ", d))
    ELSE [tr |-> WithAddress([NewTransport("telegram") EXCEPT
                                 !.token = IF d.password # <<>>
                                           THEN d.user \o <<":">> \o d.password
                                           ELSE d.user,
                                 !.channel = GetOption(d, "channel")], d),
          err |-> NoError]

CreateTeams(d) ==
    IF d.scheme # Str("microsoftteams")
    THEN Failed(UnsupportedScheme("microsoftteams", d))
    ELSE IF d.user = <<>>
    THEN Failed(IncompleteDSN("incomplete DSN: Missing webhook ID. DSN: ", d))
    ELSE IF GetOption(d, "token") = <<>>
    THEN Failed(Str("missing required option: token"))
    ELSE [tr |-> [NewTransport("microsoftteams") EXCEPT
                     !.webhookURL = Str("https://outlook.office.com/webhook/")
                                       \o d.user \o Str("/IncomingWebhook/")
                                       \o GetOption(d, "token")],
          err |-> NoError]

CreateGotify(d) ==
    IF d.scheme # Str("gotify") THEN Failed(UnsupportedScheme("gotify", d))
    ELSE IF d.user = <<>>
    THEN Failed(IncompleteDSN("incomplete DSN: Missing token. DSN: ", d))
    ELSE IF d.host = <<>>
    THEN Failed(IncompleteDSN("incomplete DSN: Missing host. DSN: ", d))
    ELSE [tr |-> WithAddress([NewTransport("gotify") EXCEPT !.token = d.user], d),
          err |-> NoError]

\* TransportFactory.Create of provider f
Create(f, d) ==
    CASE f = "slack" -> CreateSlack(d)
      [] f = "discord" -> CreateDiscord(d)
      [] f = "telegram" -> CreateTelegram(d)
      [] f = "microsoftteams" -> CreateTeams(d)
      [] OTHER -> CreateGotify(d)

----------------------------------------------------------------------------
(* One connection string through NewDSN, Create and getEndpoint *)

\* the connection strings tried: scheme, "//", user-info, host, port, path and
\* query, each present in several shapes or absent
SchemeParts ==
    {<<>>} \cup {<<a, ":">> : a \in Providers \cup {"SLACK", "smtp"}}

SlashParts == {<<>>, <<"/", "/">>}

UserParts ==
    {<<>>, <<"@">>, <<"token", "@">>, <<"xoxb-1", "@">>,
     <<"123456", ":", "ABC", "@">>}

HostParts == {<<>>, <<"default">>, <<"localhost">>, <<"example.com">>}

PortParts == {<<>>, <<":">>, <<":", "8080">>, <<":", "0">>, <<":", "x">>,
              <<":", "99999999999999999999">>}

PathParts == {<<>>, <<"/", "p">>}

QueryParts ==
    {<<>>, <<"?", "channel", "=", "C1">>,
     <<"?", "webhook_id", "=", "1">>,
     <<"?", "token", "=", "def", "&", "token", "=", "ghi">>,
     <<"?", "webhook_id", "=", "&", "token">>}

DSNInputs ==
    {s \o l \o u \o h \o p \o a \o q :
        s \in SchemeParts, l \in SlashParts, u \in UserParts, h \in HostParts,
        p \in PortParts, a \in PathParts, q \in QueryParts}

ProviderIdle ==
    /\ ppc = "off"
    /\ input = <<>>
    /\ parsed = [err |-> NoError, dsn |-> NilDSN]
    /\ factory = "nil"
    /\ created = [tr |-> NilTransport, err |-> NoError]
    /\ endpoint = <<>>
    /\ httpRequests = 0

ProviderInit ==
    /\ ppc = "start"
    /\ input \in DSNInputs
    /\ parsed = [err |-> NoError, dsn |-> NilDSN]
    /\ factory = "nil"
    /\ created = [tr |-> NilTransport, err |-> NoError]
    /\ endpoint = <<>>
    /\ httpRequests = 0

\* dsn, err := NewDSN(input)
ParseDSN ==
    /\ ppc = "start"
    /\ parsed' = NewDSN(input)
    /\ ppc' = "parsed"
    /\ UNCHANGED <<input, factory, created, endpoint, httpRequests>>
    /\ UNCHANGED <<nvars, rvars, svars, ovars, cvars>>

\* transport, err := factory.Create(dsn), on the factory of any provider
FactoryCreate(f) ==
    /\ ppc = "parsed"
    /\ parsed.err = NoError
    /\ created' = Create(f, parsed.dsn)
    /\ factory' = f
    /\ ppc' = "created"
    /\ UNCHANGED <<input, parsed, endpoint, httpRequests>>
    /\ UNCHANGED <<nvars, rvars, svars, ovars, cvars>>

\* the created transport resolves the address it will call
ResolveEndpoint ==
    /\ ppc = "created"
    /\ created.err = NoError
    /\ endpoint' = getEndpoint(created.tr)
    /\ ppc' = "resolved"
    /\ UNCHANGED <<input, parsed, factory, created, httpRequests>>
    /\ UNCHANGED <<nvars, rvars, svars, ovars, cvars>>

ProviderNext ==
    \/ ParseDSN
    \/ \E f \in Providers : FactoryCreate(f)
    \/ ResolveEndpoint

----------------------------------------------------------------------------
(* The factory registry: RegisterTransportFactory and NewTransportFromDSN *)

\* the goroutines that use the registry
Procs == {1, 2, 3}

\* the factory values registered: two slack factories and a discord one
RegFactories ==
    {[provider |-> "slack", inst |-> 1], [provider |-> "slack", inst |-> 2],
     [provider |-> "discord", inst |-> 1]}

NilFactory == [provider |-> "nil", inst |-> 0]

\* the connection strings looked up: slack, discord, a scheme nobody
\* registers, and a string NewDSN rejects
RegistryInputs ==
    {<<"slack", ":", "/", "/", "xoxb-1", "@", "default">>,
     <<"discord", ":", "/", "/", "token", "@", "default", "?", "webhook_id", "=", "1">>,
     <<"telegram", ":", "/", "/", "token", "@", "default">>,
     <<"slack", ":", "/", "/">>}

\* a goroutine outside any registry call
IdleLocals ==
    [f |-> NilFactory, input |-> <<>>, parsed |-> [err |-> NoError, dsn |-> NilDSN],
     tmp |-> <<>>, snapshot |-> <<>>, idx |-> 0, created |-> <<>>,
     res |-> [tr |-> NilTransport, err |-> NoError], seenDone |-> <<>>]

\* transportFactoriesMu.Lock() returns: no writer and no reader holds the lock
LockAcquirable == rwWriter = 0 /\ rwReaders = {}

\* the lookup going on without waiting for the writer (no RLock)
RLockForced == TRUE

\* transportFactoriesMu.RLock() returns: no writer holds the lock

RLockAcquirable == rwWriter = 0

\* append(transportFactories, factory)
AppendFactory(list, f) == Append(list, f)

\* the scan keeping the last supporting factory
RECURSIVE LastSupportingFactory(_, _, _)
LastSupportingFactory(list, d, i) ==
    IF i > Len(list) THEN 0
    ELSE LET later == LastSupportingFactory(list, d, i + 1)
         IN  IF later # 0 THEN later
             ELSE IF FactorySupports(list[i].provider, d) THEN i ELSE 0

\* `for _, factory := range transportFactories { if factory.Supports(dsn) {`
RECURSIVE FirstSupportingFactory(_, _, _)
FirstSupportingFactory(list, d, i) ==
    IF i > Len(list) THEN 0
    ELSE IF FactorySupports(list[i].provider, d) THEN i
    ELSE FirstSupportingFactory(list, d, i + 1)

\* RegisterTransportFactory(factory) is called
RegisterCall(p, f) ==
    /\ rpc[p] = "idle"
    /\ regStarted < MaxRegistrations
    /\ regStarted' = regStarted + 1
    /\ rpc' = [rpc EXCEPT ![p] = "r_lock"]
    /\ rloc' = [rloc EXCEPT ![p] = [IdleLocals EXCEPT !.f = f]]
    /\ UNCHANGED <<transportFactories, rwWriter, rwReaders, completed>>
    /\ UNCHANGED <<nvars, pvars, svars, ovars, cvars>>

\* transportFactoriesMu.Lock()
RegisterLock(p) ==
    /\ rpc[p] = "r_lock"
    /\ LockAcquirable
    /\ rwWriter' = p
    /\ rpc' = [rpc EXCEPT ![p] = "r_load"]
    /\ UNCHANGED <<transportFactories, rwReaders, rloc, completed, regStarted>>
    /\ UNCHANGED <<nvars, pvars, svars, ovars, cvars>>

\* append reads the slice ...
RegisterLoad(p) ==
    /\ rpc[p] = "r_load"
    /\ rloc' = [rloc EXCEPT ![p].tmp = transportFactories]
    /\ rpc' = [rpc EXCEPT ![p] = "r_store"]
    /\ UNCHANGED <<transportFactories, rwWriter, rwReaders, completed, regStarted>>
    /\ UNCHANGED <<nvars, pvars, svars, ovars, cvars>>

\* ... and the result is stored in transportFactories
RegisterStore(p) ==
    /\ rpc[p] = "r_store"
    /\ transportFactories' = AppendFactory(rloc[p].tmp, rloc[p].f)
    /\ rpc' = [rpc EXCEPT ![p] = "r_unlock"]
    /\ UNCHANGED <<rwWriter, rwReaders, rloc, completed, regStarted>>
    /\ UNCHANGED <<nvars, pvars, svars, ovars, cvars>>

\* the deferred transportFactoriesMu.Unlock(), and the return
RegisterReturn(p) ==
    /\ rpc[p] = "r_unlock"
    /\ rwWriter' = IF rwWriter = p THEN 0 ELSE rwWriter
    /\ completed' = Append(completed, rloc[p].f)
    /\ rpc' = [rpc EXCEPT ![p] = "idle"]
    /\ rloc' = [rloc EXCEPT ![p] = IdleLocals]
    /\ UNCHANGED <<transportFactories, rwReaders, regStarted>>
    /\ UNCHANGED <<nvars, pvars, svars, ovars, cvars>>

\* NewTransportFromDSN(dsnString) is called: NewDSN, and the return on its error
LookupCall(p, in) ==
    /\ rpc[p] = "idle"
    /\ LET r == NewDSN(in)
       IN  /\ rloc' = [rloc EXCEPT ![p] =
                         [IdleLocals EXCEPT !.input = in, !.parsed = r,
                                            !.res = [tr |-> NilTransport, err |-> r.err]]]
           /\ rpc' = [rpc EXCEPT ![p] = IF r.err # NoError THEN "l_failed" ELSE "l_rlock"]
    /\ UNCHANGED <<transportFactories, rwWriter, rwReaders, completed, regStarted>>
    /\ UNCHANGED <<nvars, pvars, svars, ovars, cvars>>

\* transportFactoriesMu.RLock()
LookupRLock(p) ==
    /\ rpc[p] = "l_rlock"
    /\ RLockAcquirable
    /\ rwReaders' = rwReaders \cup {p}
    /\ rloc' = [rloc EXCEPT ![p].seenDone = completed]
    /\ rpc' = [rpc EXCEPT ![p] = "l_scan"]
    /\ UNCHANGED <<transportFactories, rwWriter, completed, regStarted>>
    /\ UNCHANGED <<nvars, pvars, svars, ovars, cvars>>

\* the range loop over transportFactories up to the first supporting factory,
\* or to the end and the "no registered transport factory" error
LookupScan(p) ==
    /\ rpc[p] = "l_scan"
    /\ LET list == transportFactories
           i == FirstSupportingFactory(list, rloc[p].parsed.dsn, 1)
       IN  /\ rloc' = [rloc EXCEPT
                         ![p].snapshot = list,
                         ![p].idx = i,
                         ![p].res = IF i # 0 THEN @
                                    ELSE Failed(Str("no registered transport factory supports scheme: ")
                                                  \o rloc[p].parsed.dsn.scheme)]
           /\ rpc' = [rpc EXCEPT ![p] = IF i # 0 THEN "l_create" ELSE "l_ret"]
    /\ UNCHANGED <<transportFactories, rwWriter, rwReaders, completed, regStarted>>
    /\ UNCHANGED <<nvars, pvars, svars, ovars, cvars>>

\* return factory.Create(dsn): the call
LookupCreate(p) ==
    /\ rpc[p] = "l_create"
    /\ LET fac == rloc[p].snapshot[rloc[p].idx]
       IN  rloc' = [rloc EXCEPT
                      ![p].created = Append(@, fac),
                      ![p].res = Create(fac.provider, rloc[p].parsed.dsn)]
    /\ rpc' = [rpc EXCEPT ![p] = "l_ret"]
    /\ UNCHANGED <<transportFactories, rwWriter, rwReaders, completed, regStarted>>
    /\ UNCHANGED <<nvars, pvars, svars, ovars, cvars>>

\* the deferred transportFactoriesMu.RUnlock(), and the return
LookupReturn(p) ==
    /\ rpc[p] = "l_ret"
    /\ rwReaders' = rwReaders \ {p}
    /\ rpc' = [rpc EXCEPT ![p] = "idle"]
    /\ rloc' = [rloc EXCEPT ![p] = IdleLocals]
    /\ UNCHANGED <<transportFactories, rwWriter, completed, regStarted>>
    /\ UNCHANGED <<nvars, pvars, svars, ovars, cvars>>

\* the return of NewDSN's error, before any locking
LookupReturnError(p) ==
    /\ rpc[p] = "l_failed"
    /\ rpc' = [rpc EXCEPT ![p] = "idle"]
    /\ rloc' = [rloc EXCEPT ![p] = IdleLocals]
    /\ UNCHANGED <<transportFactories, rwWriter, rwReaders, completed, regStarted>>
    /\ UNCHANGED <<nvars, pvars, svars, ovars, cvars>>

RegistryIdle ==
    /\ transportFactories = <<>>
    /\ rwWriter = 0
    /\ rwReaders = {}
    /\ rpc = [p \in Procs |-> "off"]
    /\ rloc = [p \in Procs |-> IdleLocals]
    /\ completed = <<>>
    /\ regStarted = 0

\* var transportFactories; no init() has run yet
RegistryInit ==
    /\ transportFactories = <<>>
    /\ rwWriter = 0
    /\ rwReaders = {}
    /\ rpc = [p \in Procs |-> "idle"]
    /\ rloc = [p \in Procs |-> IdleLocals]
    /\ completed = <<>>
    /\ regStarted = 0

RegistryNext ==
    \E p \in Procs :
        \/ \E f \in RegFactories : RegisterCall(p, f)
        \/ RegisterLock(p)
        \/ RegisterLoad(p)
        \/ RegisterStore(p)
        \/ RegisterReturn(p)
        \/ \E in \in RegistryInputs : LookupCall(p, in)
        \/ LookupRLock(p)
        \/ LookupScan(p)
        \/ LookupCreate(p)
        \/ LookupReturn(p)
        \/ LookupReturnError(p)

----------------------------------------------------------------------------
(* TransportInterface as seen by the Notifier *)

Supports(t, m) == m.kind \in t.kinds

\* transport.Send(ctx, message) of transports[i]: a SentMessage, or an error
TransportSend(ts, i, m, ok) ==
    IF ok THEN [sent |-> [transport |-> ts[i].name, at |-> i], err |-> NoErr]
          ELSE [sent |-> NilSent, err |-> TransportErr(i)]

----------------------------------------------------------------------------
(* Notifier.Send *)

\* the loop of the named branch: first transport with that String() that
\* supports the message, 0 when the loop ends without a match
RECURSIVE FindNamed(_, _, _)
FindNamed(ts, m, i) ==
    IF i > Len(ts) THEN 0
    ELSE IF ts[i].name = m.transport /\ Supports(ts[i], m) THEN i
    ELSE FindNamed(ts, m, i + 1)

\* the loop of the unnamed branch: first transport that supports the message
RECURSIVE FindSupporting(_, _, _)
FindSupporting(ts, m, i) ==
    IF i > Len(ts) THEN 0
    ELSE IF Supports(ts[i], m) THEN i
    ELSE FindSupporting(ts, m, i + 1)

\* FindSupporting with the loop keeping the last match instead of returning
RECURSIVE FindSupportingLast(_, _, _)
FindSupportingLast(ts, m, i) ==
    IF i > Len(ts) THEN 0
    ELSE LET later == FindSupportingLast(ts, m, i + 1)
         IN  IF later # 0 THEN later
             ELSE IF Supports(ts[i], m) THEN i ELSE 0

\* the named branch falling through to the unnamed loop instead of returning
SendNamedFallsBack(ts, m, ok) ==
    LET i == FindNamed(ts, m, 1)
        j == IF i # 0 THEN i ELSE FindSupporting(ts, m, 1)
    IN  IF j # 0
        THEN LET r == TransportSend(ts, j, m, ok)
             IN  [calls |-> <<[at |-> j, res |-> r]>>, sent |-> r.sent, err |-> r.err]
        ELSE [calls |-> <<>>, sent |-> NilSent,
              err |-> Err("transport not found or does not support message")]

\* message.GetTransport() # "": route by name
SendNamed(ts, m, ok) ==
    LET i == FindNamed(ts, m, 1)
    IN  IF i # 0
        THEN LET r == TransportSend(ts, i, m, ok)
             IN  [calls |-> <<[at |-> i, res |-> r]>>, sent |-> r.sent, err |-> r.err]
        ELSE [calls |-> <<>>, sent |-> NilSent,
              err |-> Err("transport not found or does not support message")]

\* the unnamed branch with the loop keeping the last supporting transport
SendFirstSupportingLast(ts, m, ok) ==
    LET i == FindSupportingLast(ts, m, 1)
    IN  IF i # 0
        THEN LET r == TransportSend(ts, i, m, ok)
             IN  [calls |-> <<[at |-> i, res |-> r]>>, sent |-> r.sent, err |-> r.err]
        ELSE [calls |-> <<>>, sent |-> NilSent,
              err |-> Err("no transport supports this message")]

\* message.GetTransport() = "": route by capability
SendFirstSupporting(ts, m, ok) ==
    LET i == FindSupporting(ts, m, 1)
    IN  IF i # 0
        THEN LET r == TransportSend(ts, i, m, ok)
             IN  [calls |-> <<[at |-> i, res |-> r]>>, sent |-> r.sent, err |-> r.err]
        ELSE [calls |-> <<>>, sent |-> NilSent,
              err |-> Err("no transport supports this message")]

\* Notifier.Send(ctx, message); ok is the outcome of the one transport call
Send(ts, m, ok) ==
    IF Len(ts) = 0
    THEN [calls |-> <<>>, sent |-> NilSent, err |-> Err("no transports configured")]
    ELSE IF m.transport # "" THEN SendNamed(ts, m, ok)
    ELSE SendFirstSupporting(ts, m, ok)

NotifierSend(m, ok) ==
    /\ npc = "idle"
    /\ LET r == Send(transports, m, ok)
       IN  /\ calls' = r.calls
           /\ ret' = [op |-> "Send", msg |-> m, sent |-> r.sent, all |-> <<>>,
                      err |-> r.err]
    /\ UNCHANGED <<transports, npc, msg, ni, results>>
    /\ UNCHANGED <<pvars, rvars, svars, ovars, cvars>>

----------------------------------------------------------------------------
(* Notifier.SendAll, one loop iteration per step *)

\* `if err != nil` after transport.Send
StopNever(err) == FALSE

StopOnError(err) == err # NoErr

\* `return results, err` dropping the partial results
SendAllFailureDropsResults(rs, err) == [all |-> <<>>, err |-> err]

\* `return results, err`: the results collected so far go with the error
SendAllFailure(rs, err) == [all |-> rs, err |-> err]

\* the return after the loop without the `len(results) == 0` check
SendAllReturnUnchecked(rs) == [all |-> rs, err |-> NoErr]

\* after the loop: `if len(results) == 0`, else `return results, nil`
SendAllReturn(rs) ==
    IF Len(rs) = 0
    THEN [all |-> <<>>, err |-> Err("no transport supports this message")]
    ELSE [all |-> rs, err |-> NoErr]

\* var results; the loop starts, or the early return on an empty notifier
SendAllBegin(m) ==
    /\ npc = "idle"
    /\ calls' = <<>>
    /\ IF Len(transports) = 0
       THEN /\ ret' = [op |-> "SendAll", msg |-> m, sent |-> NilSent, all |-> <<>>,
                       err |-> Err("no transports configured")]
            /\ UNCHANGED <<npc, msg, ni, results>>
       ELSE /\ npc' = "sendall"
            /\ msg' = m
            /\ ni' = 1
            /\ results' = <<>>
            /\ ret' = [op |-> "running", msg |-> m, sent |-> NilSent, all |-> <<>>,
                       err |-> NoErr]
    /\ UNCHANGED transports
    /\ UNCHANGED <<pvars, rvars, svars, ovars, cvars>>

\* the loop's test restricted to the transport the message names
SendAllSelectsTarget(t, m) ==
    Supports(t, m) /\ (m.transport = "" \/ t.name = m.transport)

\* `if transport.Supports(message)`: the loop's only test
SendAllSelects(t, m) == Supports(t, m)

\* one iteration of `for _, transport := range n.transports`
SendAllStep(ok) ==
    /\ npc = "sendall"
    /\ ni <= Len(transports)
    /\ IF SendAllSelects(transports[ni], msg)
       THEN LET r == TransportSend(transports, ni, msg, ok)
            IN  /\ calls' = Append(calls, [at |-> ni, res |-> r])
                /\ IF StopOnError(r.err)
                   THEN /\ ret' = [op |-> "SendAll", msg |-> msg, sent |-> NilSent,
                                   all |-> SendAllFailure(results, r.err).all,
                                   err |-> SendAllFailure(results, r.err).err]
                        /\ npc' = "idle"
                        /\ UNCHANGED <<ni, results>>
                   ELSE /\ results' = Append(results, r.sent)
                        /\ ni' = ni + 1
                        /\ UNCHANGED <<npc, ret>>
       ELSE /\ ni' = ni + 1
            /\ UNCHANGED <<npc, results, calls, ret>>
    /\ UNCHANGED <<transports, msg>>
    /\ UNCHANGED <<pvars, rvars, svars, ovars, cvars>>

\* the loop has ended
SendAllEnd ==
    /\ npc = "sendall"
    /\ ni > Len(transports)
    /\ npc' = "idle"
    /\ ret' = [op |-> "SendAll", msg |-> msg, sent |-> NilSent,
               all |-> SendAllReturn(results).all, err |-> SendAllReturn(results).err]
    /\ UNCHANGED <<transports, msg, ni, results, calls>>
    /\ UNCHANGED <<pvars, rvars, svars, ovars, cvars>>

----------------------------------------------------------------------------
(* The Notifier's initial state and steps *)

NotifierIdle ==
    /\ transports = <<>>
    /\ npc = "off"
    /\ msg = [kind |-> "ChatMessage", transport |-> ""]
    /\ ni = 0
    /\ results = <<>>
    /\ calls = <<>>
    /\ ret = [op |-> "none", msg |-> [kind |-> "ChatMessage", transport |-> ""],
              sent |-> NilSent, all |-> <<>>, err |-> NoErr]

\* NewNotifier(transports...)
NotifierInit ==
    /\ transports \in TransportLists
    /\ npc = "idle"
    /\ msg = [kind |-> "ChatMessage", transport |-> ""]
    /\ ni = 0
    /\ results = <<>>
    /\ calls = <<>>
    /\ ret = [op |-> "none", msg |-> [kind |-> "ChatMessage", transport |-> ""],
              sent |-> NilSent, all |-> <<>>, err |-> NoErr]

NotifierNext ==
    \/ \E m \in Messages, ok \in BOOLEAN : NotifierSend(m, ok)
    \/ \E m \in Messages : SendAllBegin(m)
    \/ \E ok \in BOOLEAN : SendAllStep(ok)
    \/ SendAllEnd

----------------------------------------------------------------------------
(* Payload values and maps (map[string]any) *)

\* a value of type any: its dynamic type, its length when it is a collection,
\* its text when it is a string, and whether json.Marshal can encode it
Value(type, n, str, enc) == [type |-> type, n |-> n, s |-> str, enc |-> enc]

StringValue(str) == Value("string", Len(str), str, TRUE)

NilValue == Value("nil", 0, <<>>, TRUE)

\* isEmptyValue of the slack, discord, gotify and teams packages
isEmptyValue(v) ==
    CASE v.type = "string" -> v.s = <<>>
      [] v.type = "[]any" -> v.n = 0
      [] v.type = "map[string]any" -> v.n = 0
      [] v.type = "nil" -> TRUE
      [] OTHER -> FALSE

\* make(map[string]any)
EmptyOptions == [k \in {} |-> NilValue]

\* m[k] = v
Put(m, k, v) == [x \in DOMAIN m \cup {k} |-> IF x = k THEN v ELSE m[x]]

\* delete(m, k)
Delete(m, k) == [x \in DOMAIN m \ {k} |-> m[x]]

\* m[k], the zero value nil when k is absent
Get(m, k) == IF k \in DOMAIN m THEN m[k] ELSE NilValue

\* the loop that copies the entries for which !isEmptyValue(v)
FilterEmpty(m) == [x \in {k \in DOMAIN m : ~isEmptyValue(m[k])} |-> m[x]]

\* the telegram loop, which copies the entries for which v != nil
FilterNil(m) == [x \in {k \in DOMAIN m : m[k].type # "nil"} |-> m[x]]

\* json.Marshal fails when a value cannot be encoded
Marshalable(m) == \A k \in DOMAIN m : m[k].enc

----------------------------------------------------------------------------
(* Messages and their Options objects (package notifier's message code and *)
(* each provider's options.go)                                            *)

\* an Options object: its Go type, its options map and its repeated
\* collection (blocks, embeds, upload, extras, potentialAction) as one value
OptionsType(provider) ==
    CASE provider = "slack" -> "slack.Options"
      [] provider = "discord" -> "discord.Options"
      [] provider = "telegram" -> "telegram.Options"
      [] provider = "microsoftteams" -> "microsoftteams.Options"
      [] OTHER -> "gotify.Options"

\* the key under which ToMap stores the collection
CollectionKey(otype) ==
    CASE otype \in {"slack.Options", "slack.UpdateMessageOptions"} -> "blocks"
      [] otype = "discord.Options" -> "embeds"
      [] otype = "telegram.Options" -> "upload"
      [] otype = "microsoftteams.Options" -> "potentialAction"
      [] OTHER -> "extras"

CollectionType(otype) ==
    CASE otype = "telegram.Options" -> "map[string]string"
      [] otype = "gotify.Options" -> "map[string]any"
      [] OTHER -> "[]map[string]any"

\* NewOptions()
NewOptions(provider) ==
    [otype |-> OptionsType(provider), options |-> EmptyOptions,
     coll |-> Value(CollectionType(OptionsType(provider)), 0, <<>>, TRUE)]

\* a setter that writes one key of the options map: Recipient, Username,
\* Title, ParseMode, PostAt, Location, ...
Set(o, k, v) == [o EXCEPT !.options = Put(o.options, k, v)]

\* a builder call that adds to the collection: Block, AddEmbed, UploadPhoto,
\* AddExtra, PotentialAction
WithCollection(o, n, str, enc) ==
    [o EXCEPT !.coll = Value(CollectionType(o.otype), n, str, enc)]

\* slack NewUpdateMessageOptions(channel, messageId): a type of its own that
\* embeds *Options
NewUpdateMessageOptions(channel, messageId) ==
    [otype |-> "slack.UpdateMessageOptions", options |-> EmptyOptions,
     coll |-> Value("[]map[string]any", 0, <<>>, TRUE),
     channel |-> channel, messageId |-> messageId]

ToMapAppending(o) ==
    IF o.coll.n > 0
    THEN Put(o.options, CollectionKey(o.otype),
             [o.coll EXCEPT !.n = Get(o.options, CollectionKey(o.otype)).n + o.coll.n])
    ELSE o.options

\* Options.ToMap: the options map itself, with the collection stored in it
\* when it is not empty; UpdateMessageOptions.ToMap stores channel and ts in
\* that map as well
ToMap(o) ==
    LET m == IF o.coll.n > 0 THEN Put(o.options, CollectionKey(o.otype), o.coll)
             ELSE o.options
    IN  IF o.otype = "slack.UpdateMessageOptions"
        THEN Put(Put(m, "channel", StringValue(o.channel)), "ts", StringValue(o.messageId))
        ELSE m


\* Options.GetRecipientId; the telegram one falls back to "chat_id"
OptionsRecipientId(o) ==
    IF Get(o.options, "recipient_id").type = "string"
    THEN Get(o.options, "recipient_id").s
    ELSE IF o.otype = "telegram.Options" /\ Get(o.options, "chat_id").type = "string"
    THEN Get(o.options, "chat_id").s
    ELSE <<>>

\* ChatMessage.GetRecipientId: the first non-empty recipient met while ranging
\* over the options map, whose iteration order Go leaves unspecified
GetRecipientIds(m) ==
    LET ids == {OptionsRecipientId(m.options[k]) : k \in DOMAIN m.options} \ {<<>>}
    IN  IF ids = {} THEN {<<>>} ELSE ids

\* ChatMessage.GetOptions(key) asserted to the provider's *Options
HasOwnOptions(m, provider) ==
    /\ provider \in DOMAIN m.options
    /\ m.options[provider].otype = OptionsType(provider)

\* the files os.Open finds
ExistingFiles == {"/tmp/ok.png"}

\* the Options objects built for a message sent through provider
OptionsOf(provider) ==
    LET o == NewOptions(provider)
    IN  {o,
         Set(o, "recipient_id", StringValue(Str("R1"))),
         Set(o, "recipient_id", StringValue(<<>>))}
        \cup
        CASE provider = "slack" ->
                {Set(o, "username", StringValue(<<>>)),
                 WithCollection(Set(o, "post_at", Value("int64", 0, <<>>, TRUE)),
                                1, <<>>, TRUE),
                 Set(o, "ts", StringValue(Str("1503.80"))),
                 Set(Set(o, "post_at", Value("int64", 0, <<>>, TRUE)),
                     "ts", StringValue(Str("1503.80"))),
                 NewUpdateMessageOptions(Str("C9"), Str("1503.80"))}
          [] provider = "discord" ->
                {Set(o, "username", StringValue(<<>>)),
                 WithCollection(o, 1, <<>>, TRUE)}
          [] provider = "telegram" ->
                {Set(o, "parse_mode", StringValue(<<>>)),
                 Set(o, "location", Value("map[string]float64", 2, <<>>, TRUE)),
                 Set(o, "venue", Value("map[string]any", 4, <<>>, TRUE)),
                 Set(o, "contact", Value("map[string]string", 2, <<>>, TRUE)),
                 WithCollection(o, 1, <<"photo", "/tmp/ok.png">>, TRUE),
                 WithCollection(o, 1, <<"photo", "/tmp/missing.png">>, TRUE)}
          [] provider = "microsoftteams" ->
                {Set(Set(o, "title", StringValue(Str("T"))),
                     "subtitle", StringValue(<<>>)),
                 WithCollection(o, 1, <<>>, FALSE)}
          [] OTHER ->
                {Set(o, "title", StringValue(<<>>)),
                 WithCollection(o, 1, <<>>, FALSE)}

\* another transport's key, under which the caller may register Options too
OtherKey(provider) == IF provider = "slack" THEN "discord" ELSE "slack"

\* a MessageInterface value of another type than *ChatMessage
OtherMessage == [kind |-> "OtherMessage", subject |-> Str("a.b"), options |-> EmptyOptions]

\* the messages sent through provider: NewChatMessage(subject), with Options
\* registered by WithOptions under the provider's key, under another
\* transport's key (there with a recipient "R2"), under both or not at all;
\* and a message that is no ChatMessage
MessagesFor(provider) ==
    LET others == {Set(NewOptions(OtherKey(provider)), "recipient_id",
                       StringValue(Str("R2")))}
    IN  {[kind |-> "ChatMessage", subject |-> sub, options |-> opts] :
            sub \in {<<>>, Str("a.b")},
            opts \in {EmptyOptions}
                \cup {[k \in {provider} |-> own] : own \in OptionsOf(provider)}
                \cup {[k \in {OtherKey(provider)} |-> oth] : oth \in others}
                \cup {[k \in {provider, OtherKey(provider)} |->
                            IF k = provider THEN own ELSE oth] :
                        own \in OptionsOf(provider), oth \in others}}
        \cup {OtherMessage}

\* the transports Send is called on, as the constructors build them
Xports ==
    {[NewTransport("slack") EXCEPT !.token = Str("xoxb-1"), !.channel = c] :
        c \in {<<>>, Str("C1")}}
    \cup {[NewTransport("telegram") EXCEPT !.token = Str("123456"), !.channel = c] :
        c \in {<<>>, Str("C1")}}
    \cup {[NewTransport("discord") EXCEPT !.token = Str("token"),
                                          !.webhookID = Str("1")],
          [NewTransport("microsoftteams") EXCEPT
              !.webhookURL = Str("https://outlook.office.com/webhook/")
                                \o Str("abc") \o Str("/IncomingWebhook/") \o Str("def")],
          SetHost([NewTransport("gotify") EXCEPT !.token = Str("token")],
                  Str("example.com"))}

----------------------------------------------------------------------------
(* Transport.Send of each provider, up to the HTTP request *)

SupportsAnything(m) == TRUE

\* Transport.Supports, the same type assertion in every provider
TransportSupports(m) == m.kind = "ChatMessage"

\* what Send has when it reaches http.NewRequestWithContext, or the error it
\* returned before: options is the map Send worked on (the Options object's
\* own map when the message carries one), payload the body it encoded
Prepared(err, options, payload, method, multipart) ==
    [err |-> err, options |-> options, payload |-> payload,
     method |-> method, multipart |-> multipart]

\* chatID := chatMsg.GetRecipientId(); if chatID == "" && t.channel != "" {...}
ChatID(t, rid) == IF rid = <<>> /\ t.channel # <<>> THEN t.channel ELSE rid

\* options := make(map[string]any); if opts, ok := ...(*Options); ok {...}
OwnOptions(t, m) ==
    IF HasOwnOptions(m, t.provider) THEN ToMap(m.options[t.provider])
    ELSE EmptyOptions

\* the tail shared by the JSON paths: json.Marshal(filteredOptions)
Encoded(options, payload, method) ==
    IF Marshalable(payload)
    THEN Prepared("nil", options, payload, method, FALSE)
    ELSE Prepared("marshal options", options, EmptyOptions, method, FALSE)

PrepareSlackUpdateFirst(t, m, rid) ==
    LET options == Put(Put(OwnOptions(t, m), "channel", StringValue(ChatID(t, rid))),
                       "text", StringValue(m.subject))
        apiMethod == IF "ts" \in DOMAIN options THEN "chat.update"
                     ELSE IF "post_at" \in DOMAIN options THEN "chat.scheduleMessage"
                     ELSE "chat.postMessage"
    IN  Encoded(options, FilterEmpty(options), apiMethod)

PrepareSlack(t, m, rid) ==
    LET options == Put(Put(OwnOptions(t, m), "channel", StringValue(ChatID(t, rid))),
                       "text", StringValue(m.subject))
        apiMethod == IF "post_at" \in DOMAIN options THEN "chat.scheduleMessage"
                     ELSE IF "ts" \in DOMAIN options THEN "chat.update"
                     ELSE "chat.postMessage"
    IN  Encoded(options, FilterEmpty(options), apiMethod)

PrepareDiscord(t, m) ==
    LET options == Put(OwnOptions(t, m), "content", StringValue(m.subject))
    IN  Encoded(options, FilterEmpty(options), "webhook")

\* the one section of a titled card holds the subject and the values read
\* from options["subtitle"] and options["text"]
PrepareTeams(t, m) ==
    LET own == OwnOptions(t, m)
        options ==
            IF "title" \notin DOMAIN own
            THEN Put(own, "text", StringValue(m.subject))
            ELSE Put(Delete(Delete(own, "subtitle"), "text"), "sections",
                     Value("[]map[string]any", 1,
                           <<m.subject, Get(own, "subtitle").type, Get(own, "subtitle").s,
                             Get(own, "text").type, Get(own, "text").s>>, TRUE))
    IN  Encoded(options, FilterEmpty(options), "webhook")

PrepareGotify(t, m) ==
    LET own == OwnOptions(t, m)
        titled == IF "title" \notin DOMAIN own
                  THEN Put(own, "title", StringValue(Str("Notification")))
                  ELSE own
        options == Put(titled, "message", StringValue(m.subject))
    IN  Encoded(options, FilterEmpty(options), "message")

\* telegram Transport.getPath
getPath(options) ==
    CASE "message_id" \in DOMAIN options -> "editMessageText"
      [] "callback_query_id" \in DOMAIN options -> "answerCallbackQuery"
      [] "photo" \in DOMAIN options -> "sendPhoto"
      [] "location" \in DOMAIN options -> "sendLocation"
      [] "audio" \in DOMAIN options -> "sendAudio"
      [] "document" \in DOMAIN options -> "sendDocument"
      [] "video" \in DOMAIN options -> "sendVideo"
      [] "animation" \in DOMAIN options -> "sendAnimation"
      [] "venue" \in DOMAIN options -> "sendVenue"
      [] "contact" \in DOMAIN options -> "sendContact"
      [] "sticker" \in DOMAIN options -> "sendSticker"
      [] OTHER -> "sendMessage"

\* telegram Transport.getTextOption
getTextOption(options) ==
    IF DOMAIN options \cap {"photo", "audio", "document", "video", "animation"} # {}
    THEN "caption"
    ELSE IF DOMAIN options \cap {"sticker", "location", "venue", "contact"} # {}
    THEN ""
    ELSE "text"

\* escapeMarkdownV2: a backslash before each special character
escapeMarkdownV2(text) == IF text = Str("a.b") THEN Str("a\\.b") ELSE text

\* telegram Transport.createMultipartBody: the form fields and file parts, or
\* an error
createMultipartBody(options, upload, text) ==
    LET textOption == getTextOption(options)
        skipped == {"upload", "photo", "document", "video", "audio", "animation", "sticker"}
        written == {k \in DOMAIN options \ skipped :
                        options[k].type \in {"string", "int", "bool", "float64", "map[string]any"}}
        named == {k \in written : ~(textOption # "" /\ text # <<>> /\ k = textOption)}
        fields == [k \in written \cup (IF textOption # "" /\ text # <<>>
                                       THEN {textOption} ELSE {}) |->
                        IF k \in named THEN options[k] ELSE StringValue(text)]
        file == Value("file", 1, <<upload.s[2]>>, TRUE)
    IN  IF \E k \in written : options[k].type = "map[string]any" /\ ~options[k].enc
        THEN [err |-> "create multipart body", fields |-> EmptyOptions]
        ELSE IF upload.s[2] \notin ExistingFiles
        THEN [err |-> "create multipart body", fields |-> EmptyOptions]
        ELSE [err |-> "nil", fields |-> Put(fields, upload.s[1], file)]

\* the extraction of location coordinates to the top level
ExtractLocation(filtered) ==
    IF Get(filtered, "location").type = "map[string]float64"
    THEN Delete(Put(Put(filtered, "latitude", Value("float64", 0, <<>>, TRUE)),
                    "longitude", Value("float64", 0, <<>>, TRUE)), "location")
    ELSE filtered

\* the extraction of a venue's coordinates, title and address
ExtractVenue(filtered) ==
    IF Get(filtered, "venue").type = "map[string]any"
    THEN Delete(Put(Put(Put(Put(filtered,
                "latitude", Value("float64", 0, <<>>, TRUE)),
                "longitude", Value("float64", 0, <<>>, TRUE)),
                "title", StringValue(Str("T"))),
                "address", StringValue(Str("A"))), "venue")
    ELSE filtered

\* the extraction of a contact's phone number and first name (the contacts
\* sent here have no last name)
ExtractContact(filtered) ==
    IF Get(filtered, "contact").type = "map[string]string"
    THEN Delete(Put(Put(filtered,
                "phone_number", StringValue(Str("555"))),
                "first_name", StringValue(Str("F"))), "contact")
    ELSE filtered

PrepareTelegram(t, m, rid) ==
    LET chat == Delete(Put(OwnOptions(t, m), "chat_id", StringValue(ChatID(t, rid))),
                       "recipient_id")
        parseMode == Get(chat, "parse_mode")
        markdown == parseMode.type # "string" \/ parseMode.s = Str("MarkdownV2")
        options == IF markdown
                   THEN Put(chat, "parse_mode", StringValue(Str("MarkdownV2")))
                   ELSE chat
        text == IF markdown THEN escapeMarkdownV2(m.subject) ELSE m.subject
        upload == Get(options, "upload")
        body == createMultipartBody(options, upload, text)
        textOption == getTextOption(options)
        withText == IF textOption # "" THEN Put(options, textOption, StringValue(text))
                    ELSE options
    IN  IF upload.type = "map[string]string"
        THEN IF body.err # "nil"
             THEN Prepared(body.err, options, EmptyOptions, "", TRUE)
             ELSE Prepared("nil", Delete(options, "upload"), body.fields,
                           getPath(Delete(options, "upload")), TRUE)
        ELSE Encoded(withText,
                     ExtractContact(ExtractVenue(ExtractLocation(FilterNil(withText)))),
                     getPath(options))

\* Send of provider t.provider on a ChatMessage, rid being what
\* chatMsg.GetRecipientId() returned
Prepare(t, m, rid) ==
    CASE t.provider = "slack" -> PrepareSlack(t, m, rid)
      [] t.provider = "discord" -> PrepareDiscord(t, m)
      [] t.provider = "telegram" -> PrepareTelegram(t, m, rid)
      [] t.provider = "microsoftteams" -> PrepareTeams(t, m)
      [] OTHER -> PrepareGotify(t, m)

\* the message after Send worked on the map its Options object handed out:
\* ToMap returns the object's own map, not a copy
AfterSend(t, m, options) ==
    IF HasOwnOptions(m, t.provider)
    THEN [m EXCEPT !.options[t.provider].options = options]
    ELSE m

----------------------------------------------------------------------------
(* Transport.Send of each provider, from client.Do to its return *)

\* the error value nil and the errors Send builds with fmt.Errorf: the text
\* that names the failing step, the error wrapped with %w (cause), and the
\* status, response body and API error text formatted into it
NoSendError ==
    [kind |-> "nil", text |-> <<>>, body |-> <<>>, cause |-> "nil", status |-> 0]

SendErrorUnwrapped(kind, cause) == [NoSendError EXCEPT !.kind = kind]

SendError(kind, cause) == [NoSendError EXCEPT !.kind = kind, !.cause = cause]

APIErrorWithoutBody(status, body) ==
    [NoSendError EXCEPT !.kind = "API error", !.status = status]

APIError(status, body) ==
    [NoSendError EXCEPT !.kind = "API error", !.status = status, !.body = body]

\* the *SentMessage nil and NewSentMessage(message, t.String())
NilSentMessage == [nil |-> TRUE, transport |-> <<>>, messageID |-> <<>>]

\* with the identifier SetMessageID stored in it, "" when Send stored none
NewSentMessage(t, id) == [nil |-> FALSE, transport |-> String(t), messageID |-> id]

\* a response body: whether reading it succeeds, whether it is JSON, and the
\* fields the providers decode (ok, error, ts, channel; id is Telegram's
\* result.message_id and Gotify's id, 0 when the body has none)
Body(raw, readable, json, ok, id, ts, error) ==
    [raw |-> raw, readable |-> readable, json |-> json, ok |-> ok, id |-> id,
     ts |-> ts, error |-> error]

NoBody == Body(<<>>, TRUE, FALSE, FALSE, 0, <<>>, <<>>)

Bodies ==
    {Body(Str("{ok:true,id:80,ts:1503.80}"), TRUE, TRUE, TRUE, 80, Str("1503.80"), <<>>),
     Body(Str("{ok:true}"), TRUE, TRUE, TRUE, 0, <<>>, <<>>),
     Body(Str("{ok:false,error:channel_not_found}"), TRUE, TRUE, FALSE, 0, <<>>,
          Str("channel_not_found")),
     Body(Str("<html>"), TRUE, FALSE, FALSE, 0, <<>>, <<>>),
     Body(Str("{ok:true,id:80,ts:1503.80}"), FALSE, TRUE, TRUE, 80, Str("1503.80"), <<>>)}

Statuses == {200, 204, 500}

\* io.ReadAll(resp.Body) with its error dropped: what could be read
ReadAll(body) == IF body.readable THEN body.raw ELSE <<>>

\* the response as Send can read it under context c: reading the body fails
\* once the context is done
ReadBody(o, c) ==
    [o EXCEPT !.body.readable = o.body.readable /\ c \notin {"canceled", "deadline"}]

\* whether Send reads the body of a response with this status: always for
\* the error text, and on success where the provider decodes a result
ReadsBody(t, status) ==
    status # (IF t.provider = "discord" THEN 204 ELSE 200)
        \/ t.provider \in {"slack", "telegram", "gotify"}

\* what client.Do returns: an error that wraps the context's error once the
\* context is done (net/http), a transport error, or a response
DoOutcomes(c) ==
    IF c \in {"canceled", "deadline"}
    THEN {[err |-> c, body |-> NoBody, status |-> 0]}
    ELSE {[err |-> "network", body |-> NoBody, status |-> 0]}
         \cup {[err |-> "nil", body |-> b, status |-> st] : st \in Statuses, b \in Bodies}

\* the one status each provider accepts
SuccessStatus(provider) == IF provider = "discord" THEN 204 ELSE 200

DecodableAlways(body) == TRUE

\* json.NewDecoder(resp.Body).Decode(&result) fails on an unreadable body and
\* on a body that is not JSON
Decodable(body) == body.readable /\ body.json

Returned(sm, err) == [sent |-> sm, err |-> err]

\* the error Decode returns: the context's error when the read was cut off by
\* it, another read error, or a syntax error
DecodeError(body, c) ==
    SendError("decode response",
              IF body.readable THEN "syntax"
              ELSE IF c \in {"canceled", "deadline"} THEN c ELSE "read")

\* the rest of Send once client.Do has returned o, the body being read under
\* context c
Respond(t, o, c) ==
    IF o.err # "nil" THEN Returned(NilSentMessage, SendError("send request", o.err))
    ELSE IF o.status # SuccessStatus(t.provider)
    THEN Returned(NilSentMessage, APIError(o.status, ReadAll(o.body)))
    ELSE CASE t.provider = "slack" ->
                IF ~Decodable(o.body)
                THEN Returned(NilSentMessage, DecodeError(o.body, c))
                ELSE IF ~o.body.ok
                THEN Returned(NilSentMessage,
                              [NoSendError EXCEPT !.kind = "slack error",
                                                  !.text = o.body.error])
                ELSE Returned(NewSentMessage(t, o.body.ts), NoSendError)
           [] t.provider = "telegram" ->
                IF ~Decodable(o.body)
                THEN Returned(NilSentMessage, DecodeError(o.body, c))
                ELSE IF o.body.id # 0
                THEN Returned(NewSentMessage(t, Str(Itoa(o.body.id))),
                              NoSendError)
                ELSE Returned(NewSentMessage(t, <<>>), NoSendError)
           [] t.provider = "gotify" ->
                IF ~Decodable(o.body)
                THEN Returned(NilSentMessage, DecodeError(o.body, c))
                ELSE Returned(NewSentMessage(t, Str(Itoa(o.body.id))),
                              NoSendError)
           [] OTHER -> Returned(NewSentMessage(t, <<>>), NoSendError)

----------------------------------------------------------------------------
(* One transport, one message, and the Send calls made on them *)

\* the record of a Send call: the message and context it was given, what
\* GetRecipientId returned (rid), what it prepared, the number of client.Do
\* calls it made, what client.Do returned and what Send returned
NoCall ==
    [m |-> OtherMessage, ctx |-> "live", rid |-> <<>>,
     prep |-> Prepared("nil", EmptyOptions, EmptyOptions, "", FALSE),
     issued |-> 0, ctxAtDo |-> "live",
     outcome |-> [err |-> "none", body |-> NoBody, status |-> 0], returned |-> FALSE,
     sent |-> NilSentMessage, err |-> NoSendError]

TransportIdle ==
    /\ spc = "off"
    /\ xport = NilTransport
    /\ smsg = OtherMessage
    /\ ctx = "live"
    /\ call = NoCall
    /\ requests = 0
    /\ sends = 0

\* a transport from its constructor and a message built for it
TransportInit ==
    /\ spc = "idle"
    /\ xport \in Xports
    /\ smsg \in MessagesFor(xport.provider)
    /\ ctx = "live"
    /\ call = NoCall
    /\ requests = 0
    /\ sends = 0

\* t.AbstractTransport.GetClient().Do(req): one more request
ClientDoRetried(n) == n + 2

ClientDo(n) == n + 1

\* Send returns before client.Do
ReturnEarly(c, rid, prep, kind) ==
    /\ call' = [NoCall EXCEPT !.m = smsg, !.ctx = c, !.rid = rid, !.prep = prep,
                              !.returned = TRUE, !.err = SendError(kind, "nil")]
    /\ spc' = "idle"
    /\ UNCHANGED requests

\* Transport.Send(ctx, message) up to client.Do: the type assertion, the
\* payload, http.NewRequestWithContext (which rejects a nil context), and the
\* call of client.Do
SendCall(c, rid) ==
    /\ spc = "idle"
    /\ sends < MaxSends
    /\ rid \in GetRecipientIds(smsg)
    /\ sends' = sends + 1
    /\ ctx' = c
    /\ IF ~TransportSupports(smsg)
       THEN /\ ReturnEarly(c, rid, NoCall.prep, "unsupported message type")
            /\ UNCHANGED smsg
       ELSE LET prep == Prepare(xport, smsg, rid)
            IN  /\ smsg' = AfterSend(xport, smsg, prep.options)
                /\ IF prep.err # "nil" THEN ReturnEarly(c, rid, prep, prep.err)
                   ELSE IF c = "nil" THEN ReturnEarly(c, rid, prep, "create request")
                   ELSE /\ call' = [NoCall EXCEPT !.m = smsg, !.ctx = c, !.rid = rid,
                                                  !.prep = prep, !.issued = 1]
                        /\ requests' = ClientDo(requests)
                        /\ spc' = "inflight"
    /\ UNCHANGED xport
    /\ UNCHANGED <<nvars, pvars, rvars, ovars, cvars>>

\* the caller cancels the context, or its deadline passes, while Send is
\* inside client.Do or reading the response body
ContextDone(cause) ==
    /\ spc \in {"inflight", "reading"}
    /\ ctx = "live"
    /\ ctx' = cause
    /\ UNCHANGED <<spc, xport, smsg, call, requests, sends>>
    /\ UNCHANGED <<nvars, pvars, rvars, ovars, cvars>>

\* client.Do returns: Send returns at once on an error and on a success
\* whose body it does not read, and goes on to read the body otherwise
DoReturn(o) ==
    /\ spc = "inflight"
    /\ o \in DoOutcomes(ctx)
    /\ IF o.err = "nil" /\ ReadsBody(xport, o.status)
       THEN /\ call' = [call EXCEPT !.outcome = o, !.ctxAtDo = ctx]
            /\ spc' = "reading"
       ELSE /\ call' = [call EXCEPT !.outcome = o, !.ctxAtDo = ctx,
                                    !.returned = TRUE,
                                    !.sent = Respond(xport, o, ctx).sent,
                                    !.err = Respond(xport, o, ctx).err]
            /\ spc' = "idle"
    /\ UNCHANGED <<xport, smsg, ctx, requests, sends>>
    /\ UNCHANGED <<nvars, pvars, rvars, ovars, cvars>>

\* io.ReadAll or Decode returns and Send interprets the response
ReadReturn ==
    /\ spc = "reading"
    /\ LET o == ReadBody(call.outcome, ctx)
       IN  call' = [call EXCEPT !.outcome = o, !.returned = TRUE,
                               !.sent = Respond(xport, o, ctx).sent,
                               !.err = Respond(xport, o, ctx).err]
    /\ spc' = "idle"
    /\ UNCHANGED <<xport, smsg, ctx, requests, sends>>
    /\ UNCHANGED <<nvars, pvars, rvars, ovars, cvars>>

TransportNext ==
    \/ \E c \in {"nil", "live", "canceled", "deadline"} : \E rid \in {<<>>, Str("R1"), Str("R2"), Str("C1")} :
            SendCall(c, rid)
    \/ \E cause \in {"canceled", "deadline"} : ContextDone(cause)
    \/ \E st \in Statuses \cup {0} : \E b \in Bodies \cup {NoBody} :
            \E e \in {"nil", "network", "canceled", "deadline"} :
                DoReturn([err |-> e, body |-> b, status |-> st])
    \/ ReadReturn

----------------------------------------------------------------------------
(* The Options builders' repeated collections (slack Options.Block,        *)
(* SectionBlock.Field, discord Options.AddEmbed, Embed.AddField) and ToMap *)

Builders == {"slack.Options", "slack.SectionBlock", "discord.Options", "discord.Embed"}

\* the lengths the add methods compare with
SlackMaxBlocks == 50

SlackMaxFields == 10

DiscordMaxEmbeds == 10

\* the add methods that start with a length check; Embed.AddField has none
HasLimit(b) == b # "discord.Embed"

Limit(b) ==
    CASE b = "slack.Options" -> SlackMaxBlocks
      [] b = "slack.SectionBlock" -> SlackMaxFields
      [] OTHER -> DiscordMaxEmbeds

\* the map entry ToMap writes: absent until a non-empty collection is stored
NoEntry == [present |-> FALSE, list |-> <<>>]

\* Block / Field / AddEmbed / AddField: the k-th add call appends entry k, or
\* returns the builder untouched when the collection is at its limit
AddItem(b, list, k) ==
    IF HasLimit(b) /\ Len(list) >= Limit(b) THEN list ELSE Append(list, k)

\* ToMap: if len(collection) > 0 { options[key] = collection }
ToMapEntry(list, entry) ==
    IF Len(list) > 0 THEN [present |-> TRUE, list |-> list] ELSE entry

OptionsIdle ==
    /\ opc = "off"
    /\ builder = "none"
    /\ items = <<>>
    /\ adds = 0
    /\ omap = NoEntry

\* NewOptions / NewSectionBlock / NewEmbed
OptionsInit ==
    /\ opc = "building"
    /\ builder \in Builders
    /\ items = <<>>
    /\ adds = 0
    /\ omap = NoEntry

BuilderAdd ==
    /\ opc = "building"
    /\ adds < MaxAdds
    /\ adds' = adds + 1
    /\ items' = AddItem(builder, items, adds + 1)
    /\ UNCHANGED <<opc, builder, omap>>
    /\ UNCHANGED <<nvars, pvars, rvars, svars, cvars>>

BuilderToMap ==
    /\ opc = "building"
    /\ omap' = ToMapEntry(items, omap)
    /\ UNCHANGED <<opc, builder, items, adds>>
    /\ UNCHANGED <<nvars, pvars, rvars, svars, cvars>>

OptionsNext == BuilderAdd \/ BuilderToMap

----------------------------------------------------------------------------
(* Goroutines that call Send(ctx, message) on the same transport with the  *)
(* same message. Send takes no lock: the map that Options.ToMap hands out  *)
(* is the Options object's own map, shared by every call.                  *)

Goroutines == 1..MaxGoroutines

\* the locals of a Send call: the message as it was when the goroutines were
\* started, the recipient read, and what the call prepared
NoLocals ==
    [m |-> OtherMessage, rid |-> <<>>,
     prep |-> Prepared("nil", EmptyOptions, EmptyOptions, "", FALSE)]

\* p's next statement writes the map of the message's Options object: ToMap
\* and the assignments and deletes that follow it
WritesOptions(p) ==
    gpc[p] = "prepare" /\ HasOwnOptions(smsg, xport.provider)

\* p's next statement reads that map: GetRecipientId ranges over the
\* message's Options objects
ReadsOptions(p) ==
    gpc[p] = "called" /\ TransportSupports(smsg) /\ HasOwnOptions(smsg, xport.provider)

\* two unsynchronised accesses to the map, one of them a write
DataRace ==
    \E p, q \in Goroutines :
        p # q /\ WritesOptions(p) /\ (WritesOptions(q) \/ ReadsOptions(q))

ConcurrentIdle ==
    /\ gpc = [p \in Goroutines |-> "off"]
    /\ gloc = [p \in Goroutines |-> NoLocals]

\* every goroutine has called Send with the same transport and message
ConcurrentInit ==
    /\ spc = "off"
    /\ xport \in Xports
    /\ smsg \in MessagesFor(xport.provider)
    /\ ctx = "live"
    /\ call = NoCall
    /\ requests = 0
    /\ sends = 0
    /\ gpc = [p \in Goroutines |-> "called"]
    /\ gloc = [p \in Goroutines |-> [NoLocals EXCEPT !.m = smsg]]

\* the type assertion and chatMsg.GetRecipientId()
GoRecipient(p, rid) ==
    /\ gpc[p] = "called"
    /\ IF ~TransportSupports(smsg)
       THEN /\ gpc' = [gpc EXCEPT ![p] = "done"]
            /\ gloc' = [gloc EXCEPT ![p].prep.err = "unsupported message type"]
       ELSE /\ rid \in GetRecipientIds(smsg)
            /\ gpc' = [gpc EXCEPT ![p] = "prepare"]
            /\ gloc' = [gloc EXCEPT ![p].rid = rid]
    /\ UNCHANGED svars
    /\ UNCHANGED <<nvars, pvars, rvars, ovars>>

\* from opts.ToMap() to the encoded body, on the map as the goroutine finds it
GoPrepare(p) ==
    /\ gpc[p] = "prepare"
    /\ LET prep == Prepare(xport, smsg, gloc[p].rid)
       IN  /\ smsg' = AfterSend(xport, smsg, prep.options)
           /\ gloc' = [gloc EXCEPT ![p].prep = prep]
           /\ gpc' = [gpc EXCEPT ![p] = IF prep.err = "nil" THEN "do" ELSE "done"]
    /\ UNCHANGED <<spc, xport, ctx, call, requests, sends>>
    /\ UNCHANGED <<nvars, pvars, rvars, ovars>>

\* http.NewRequestWithContext and client.Do
GoDo(p) ==
    /\ gpc[p] = "do"
    /\ requests' = ClientDo(requests)
    /\ gpc' = [gpc EXCEPT ![p] = "done"]
    /\ UNCHANGED <<spc, xport, smsg, ctx, call, sends, gloc>>
    /\ UNCHANGED <<nvars, pvars, rvars, ovars>>

\* the Go runtime finds the map written by one goroutine while another
\* accesses it and ends the process ("fatal error: concurrent map writes")
GoFatal ==
    /\ DataRace
    /\ gpc' = [p \in Goroutines |-> "crashed"]
    /\ UNCHANGED gloc
    /\ UNCHANGED svars
    /\ UNCHANGED <<nvars, pvars, rvars, ovars>>

ConcurrentNext ==
    \/ \E p \in Goroutines : \E rid \in {<<>>, Str("R1"), Str("R2"), Str("C1")} :
            GoRecipient(p, rid)
    \/ \E p \in Goroutines : GoPrepare(p)
    \/ \E p \in Goroutines : GoDo(p)
    \/ GoFatal

----------------------------------------------------------------------------
(* The specifications *)

InitNotifier ==
    NotifierInit /\ ProviderIdle /\ RegistryIdle /\ TransportIdle /\ OptionsIdle
        /\ ConcurrentIdle

SpecNotifier == InitNotifier /\ [][NotifierNext]_vars

InitProvider ==
    ProviderInit /\ NotifierIdle /\ RegistryIdle /\ TransportIdle /\ OptionsIdle
        /\ ConcurrentIdle

SpecProvider == InitProvider /\ [][ProviderNext]_vars

InitRegistry ==
    RegistryInit /\ NotifierIdle /\ ProviderIdle /\ TransportIdle /\ OptionsIdle
        /\ ConcurrentIdle

SpecRegistry == InitRegistry /\ [][RegistryNext]_vars

InitTransport ==
    TransportInit /\ NotifierIdle /\ ProviderIdle /\ RegistryIdle /\ OptionsIdle
        /\ ConcurrentIdle

SpecTransport == InitTransport /\ [][TransportNext]_vars

InitOptions ==
    OptionsInit /\ NotifierIdle /\ ProviderIdle /\ RegistryIdle /\ TransportIdle
        /\ ConcurrentIdle

SpecOptions == InitOptions /\ [][OptionsNext]_vars

InitConcurrent ==
    ConcurrentInit /\ NotifierIdle /\ ProviderIdle /\ RegistryIdle /\ OptionsIdle

SpecConcurrent == InitConcurrent /\ [][ConcurrentNext]_vars

----------------------------------------------------------------------------
(* Properties of the Notifier *)

\* the indices of the transports that support m, and the k-th of them
SupportingSet(m) == {i \in 1..Len(transports) : Supports(transports[i], m)}

NamedSet(m) ==
    {i \in 1..Len(transports) :
        transports[i].name = m.transport /\ Supports(transports[i], m)}

Least(S) == CHOOSE i \in S : \A j \in S : i <= j

KthSupporting(m, k) ==
    CHOOSE i \in SupportingSet(m) :
        Cardinality({j \in SupportingSet(m) : j < i}) = k - 1

\* C1: for a message without a target name and a Notifier with at least one
\* transport, Send calls Send on exactly one transport, the first in
\* construction order that supports the message, and returns that call's
\* result unchanged, error included; with no supporting transport it returns
\* an error and calls no transport.
C1_SendFirstSupporting ==
    (ret.op = "Send" /\ ret.msg.transport = "" /\ Len(transports) >= 1) =>
        IF SupportingSet(ret.msg) = {}
        THEN calls = <<>> /\ ret.err # NoErr /\ ret.sent = NilSent
        ELSE /\ Len(calls) = 1
             /\ calls[1].at = Least(SupportingSet(ret.msg))
             /\ ret.sent = calls[1].res.sent
             /\ ret.err = calls[1].res.err

\* only the second of three transports is the first to support the message,
\* its Send fails, and the third (which supports it too) is not tried
C1_Witness ==
    /\ ret.op = "Send" /\ ret.msg.transport = ""
    /\ Len(transports) = 3
    /\ SupportingSet(ret.msg) = {2, 3}
    /\ Len(calls) = 1 /\ calls[1].at = 2
    /\ ret.err = TransportErr(2)

\* C2: for a message with a target name, Send calls Send only on the first
\* transport whose String() is that name and which supports the message; if
\* there is none it returns an error and calls no transport, whatever other
\* transports support the message.
C2_SendNamedOnly ==
    (ret.op = "Send" /\ ret.msg.transport # "") =>
        IF NamedSet(ret.msg) = {}
        THEN calls = <<>> /\ ret.err # NoErr /\ ret.sent = NilSent
        ELSE /\ Len(calls) = 1
             /\ calls[1].at = Least(NamedSet(ret.msg))
             /\ transports[calls[1].at].name = ret.msg.transport
             /\ ret.sent = calls[1].res.sent
             /\ ret.err = calls[1].res.err

\* the target names no supporting transport while a transport of another name
\* supports the message: an error, and nothing was sent
C2_Witness ==
    /\ ret.op = "Send" /\ ret.msg.transport # ""
    /\ NamedSet(ret.msg) = {}
    /\ SupportingSet(ret.msg) # {}
    /\ \E i \in 1..Len(transports) : transports[i].name = ret.msg.transport
    /\ calls = <<>> /\ ret.err # NoErr

\* C3: SendAll calls Send on the supporting transports one at a time in
\* construction order, and a call that returned an error is the last call.
C3_SendAllFailFast ==
    (ret.op \in {"running", "SendAll"}) =>
        /\ Len(calls) <= Cardinality(SupportingSet(ret.msg))
        /\ \A k \in 1..Len(calls) : calls[k].at = KthSupporting(ret.msg, k)
        /\ \A k \in 1..Len(calls) : calls[k].res.err # NoErr => k = Len(calls)
        /\ (ret.op = "SendAll" /\ calls # <<>> /\ calls[Len(calls)].res.err # NoErr)
              => Len(ret.all) = Len(calls) - 1

\* three supporting transports, the second fails: the third is never called
\* and one successful result exists
C3_Witness ==
    /\ ret.op = "SendAll"
    /\ SupportingSet(ret.msg) = {1, 2, 3}
    /\ Len(calls) = 2
    /\ calls[2].res.err # NoErr
    /\ Len(ret.all) = 1
    /\ npc = "idle"

\* C4: when a transport's Send fails during SendAll, SendAll returns that
\* error with exactly the SentMessages of the supporting transports that
\* succeeded before it, in construction order.
C4_SendAllPartialResults ==
    (ret.op = "SendAll" /\ \E k \in 1..Len(calls) : calls[k].res.err # NoErr) =>
        LET f == Least({k \in 1..Len(calls) : calls[k].res.err # NoErr})
        IN  /\ ret.err = calls[f].res.err
            /\ ret.err = TransportErr(KthSupporting(ret.msg, f))
            /\ Len(ret.all) = f - 1
            /\ \A k \in 1..(f - 1) :
                  /\ ret.all[k] = calls[k].res.sent
                  /\ ret.all[k].at = KthSupporting(ret.msg, k)
                  /\ ret.all[k] # NilSent

\* the first transport does not support the message, the second succeeds and
\* the third fails: the error comes with the second's SentMessage
C4_Witness ==
    /\ ret.op = "SendAll"
    /\ SupportingSet(ret.msg) = {2, 3}
    /\ ret.err = TransportErr(3)
    /\ Len(ret.all) = 1 /\ ret.all[1].at = 2

\* C5: SendAll returns an error, no results and calls no transport when no
\* configured transport supports the message (an empty Notifier included);
\* when it returns without error the results hold one SentMessage per
\* supporting transport, in construction order.
C5_SendAllResults ==
    (ret.op = "SendAll") =>
        /\ SupportingSet(ret.msg) = {} =>
              (ret.err # NoErr /\ ret.all = <<>> /\ calls = <<>>)
        /\ ret.err = NoErr =>
              /\ Len(ret.all) = Cardinality(SupportingSet(ret.msg))
              /\ Len(ret.all) >= 1
              /\ \A k \in 1..Len(ret.all) :
                    /\ ret.all[k].at = KthSupporting(ret.msg, k)
                    /\ ret.all[k].transport = transports[ret.all[k].at].name

\* a success over three transports of which the first does not support the
\* message
C5_Witness ==
    /\ ret.op = "SendAll" /\ ret.err = NoErr
    /\ Len(transports) = 3
    /\ SupportingSet(ret.msg) = {2, 3}
    /\ Len(ret.all) = 2

\* no supporting transport among two configured ones
C5_WitnessNone ==
    /\ ret.op = "SendAll" /\ Len(transports) = 2
    /\ SupportingSet(ret.msg) = {}
    /\ ret.err = Err("no transport supports this message")

\* C29: SendAll does not read the message's target name: for a message
\* with a target it calls Send on the supporting transports in construction
\* order, whatever their String(), and on all of them when none fails.
C29_SendAllIgnoresTarget ==
    (ret.op = "SendAll" /\ ret.msg.transport # "") =>
        /\ Len(calls) <= Cardinality(SupportingSet(ret.msg))
        /\ \A k \in 1..Len(calls) : calls[k].at = KthSupporting(ret.msg, k)
        /\ (ret.err = NoErr /\ Len(transports) > 0) =>
                Len(calls) = Cardinality(SupportingSet(ret.msg))

\* a SendAll of a message with a target has called a transport with another
\* String() as well as the named one
C29_Witness ==
    /\ ret.op = "SendAll" /\ ret.msg.transport # "" /\ ret.err = NoErr
    /\ \E k \in 1..Len(calls) : transports[calls[k].at].name # ret.msg.transport
    /\ \E k \in 1..Len(calls) : transports[calls[k].at].name = ret.msg.transport

----------------------------------------------------------------------------
(* Properties of NewDSN, the factories and the endpoint resolution *)

\* the required field that Create of provider f finds missing in d first, ""
\* when d has them all
MissingField(f, d) ==
    CASE f = "slack" ->
            IF d.user = <<>> THEN "access token"
            ELSE IF d.user[1] \notin XoxAtoms THEN "token format" ELSE ""
      [] f = "discord" ->
            IF d.user = <<>> THEN "token"
            ELSE IF GetOption(d, "webhook_id") = <<>> THEN "webhook_id" ELSE ""
      [] f = "telegram" -> IF d.user = <<>> THEN "token" ELSE ""
      [] f = "microsoftteams" ->
            IF d.user = <<>> THEN "webhook ID"
            ELSE IF GetOption(d, "token") = <<>> THEN "token" ELSE ""
      [] OTHER ->
            IF d.user = <<>> THEN "token"
            ELSE IF d.host = <<>> THEN "host" ELSE ""

\* the error texts that name each field
TextsNaming(field) ==
    CASE field = "access token" -> {"incomplete DSN: Missing access token. DSN: "}
      [] field = "token format" ->
            {"incomplete DSN: Invalid Slack token format. Must start with xoxb-, xoxp-, or xoxa-2. DSN: "}
      [] field = "token" ->
            {"incomplete DSN: Missing token. DSN: ", "missing required option: token"}
      [] field = "webhook_id" -> {"missing required option: webhook_id"}
      [] field = "webhook ID" -> {"incomplete DSN: Missing webhook ID. DSN: "}
      [] field = "host" -> {"incomplete DSN: Missing host. DSN: "}
      [] OTHER -> {}

\* C8: for every provider factory, Create on a DSN of its scheme that lacks a
\* required field returns an error and no transport, issues no HTTP request,
\* and the error names the missing field and contains the original
\* connection string.
C8_IncompleteConfiguration ==
    (ppc \in {"created", "resolved"}
        /\ FactorySupports(factory, parsed.dsn)
        /\ MissingField(factory, parsed.dsn) # "") =>
        /\ created.tr = NilTransport
        /\ created.err # NoError
        /\ httpRequests = 0
        /\ created.err[1] \in TextsNaming(MissingField(factory, parsed.dsn))
        /\ Contains(created.err, parsed.dsn.originalDSN)

\* C9: NewDSN fails when the scheme or the host is empty: every DSN it returns
\* has a non-empty scheme and a non-empty host, whatever user-info or port the
\* input carries.
C9_SchemeAndHostNonEmpty ==
    (ppc # "off" /\ ppc # "start" /\ parsed.err = NoError) =>
        /\ parsed.dsn.scheme # <<>>
        /\ parsed.dsn.host # <<>>

\* C10: when the transport's host is empty or "localhost" the resolved address
\* is the provider's default host, for every port; for any other host it is
\* that host, followed by ":port" exactly when port > 0.
C10_EndpointResolution ==
    (ppc = "resolved") =>
        LET t == created.tr
        IN  IF t.host = <<>> \/ t.host = Str("localhost")
            THEN endpoint = DefaultHost(t.provider)
            ELSE endpoint = IF t.port > 0 THEN t.host \o <<":", Itoa(t.port)>>
                            ELSE t.host

\* the request URL is addressed to host: "https://", the host, then the path
AddressedTo(url, host) ==
    /\ HasPrefix(url, Str("https://") \o host)
    /\ Len(url) > 1 + Len(host)
    /\ url[2 + Len(host)] \in {"/api/", "/api/webhooks/", "/bot", "/message"}

\* C11: for every provider factory and every valid DSN whose host is the
\* literal "default", with or without a port, the created transport's String()
\* contains the provider's built-in default host and its Send posts to that
\* default host.
C11_DefaultHost ==
    (ppc \in {"created", "resolved"}
        /\ created.err = NoError
        /\ parsed.dsn.host = Str("default")) =>
        /\ Contains(String(created.tr), DefaultHost(factory))
        /\ AddressedTo(RequestURL(created.tr, "send"), DefaultHost(factory))

----------------------------------------------------------------------------
(* Properties of the factory registry *)

IsPrefix(a, b) == Len(a) <= Len(b) /\ SubSeq(b, 1, Len(a)) = a

\* positions between Lock() and the deferred Unlock()
WriteSection == {"r_load", "r_store", "r_unlock"}

\* positions between RLock() and the deferred RUnlock(): the scan, the call of
\* Create, and its return
ReadSection == {"l_scan", "l_create", "l_ret"}

\* the registrations, in order, that are factories for the scheme of d
RegisteredFor(regs, d) == {i \in 1..Len(regs) : Str(regs[i].provider) = d.scheme}

\* C6: NewTransportFromDSN calls Create on exactly one factory, the earliest
\* registered one that supports the DSN, and on no other (a second factory of
\* the same scheme stays in the list but is not used); if no registered
\* factory supports the scheme, or NewDSN fails, it returns an error and
\* calls no factory.
C6_FirstRegisteredFactory ==
    \A p \in Procs :
        /\ Len(rloc[p].created) <= 1
        /\ rpc[p] = "l_failed" =>
              (rloc[p].created = <<>> /\ rloc[p].res.err # NoError)
        /\ rpc[p] = "l_ret" =>
              LET regs == rloc[p].seenDone
                  S == RegisteredFor(regs, rloc[p].parsed.dsn)
              IN  IF S = {}
                  THEN /\ rloc[p].created = <<>>
                       /\ rloc[p].res.err # NoError
                       /\ rloc[p].res.tr = NilTransport
                  ELSE /\ rloc[p].created = <<regs[Least(S)]>>
                       /\ rloc[p].res.err = NoError =>
                             rloc[p].res.tr.provider = regs[Least(S)].provider

\* discord, then slack twice: a slack DSN uses the first slack registration
\* only
C6_Witness ==
    \E p \in Procs :
        /\ rpc[p] = "l_ret"
        /\ Len(rloc[p].seenDone) = 3
        /\ rloc[p].seenDone[1].provider = "discord"
        /\ rloc[p].seenDone[2] = [provider |-> "slack", inst |-> 2]
        /\ rloc[p].seenDone[3] = [provider |-> "slack", inst |-> 1]
        /\ rloc[p].parsed.dsn.scheme = Str("slack")
        /\ rloc[p].created = <<[provider |-> "slack", inst |-> 2]>>
        /\ rloc[p].res.err = NoError

\* C7: under every interleaving a registration never runs while another
\* registration or a lookup is between its lock and its unlock, no
\* registration is lost, and a lookup sees the factories in registration
\* order, those registered before it took the lock included.
C7_RegistryLocking ==
    /\ \A p, q \in Procs :
          (p # q /\ rpc[p] \in WriteSection) =>
              rpc[q] \notin WriteSection \cup ReadSection
    /\ (\A p \in Procs : rpc[p] \notin WriteSection) => transportFactories = completed
    /\ IsPrefix(completed, transportFactories)
    /\ Len(transportFactories) <= Len(completed) + 1
    /\ \A p \in Procs :
          rpc[p] \in {"l_create", "l_ret"} =>
              /\ IsPrefix(rloc[p].seenDone, rloc[p].snapshot)
              /\ rloc[p].snapshot = transportFactories

\* two lookups are inside the registry at once, after a registration, while
\* a third goroutine waits to register
C7_Witness ==
    /\ rpc[1] = "l_create"
    /\ rpc[2] = "l_create"
    /\ rpc[3] = "r_lock"
    /\ rwReaders = {1, 2}
    /\ Len(completed) >= 1
    /\ rloc[1].snapshot = completed

----------------------------------------------------------------------------
(* Properties of Transport.Send *)

\* the last Send call reached client.Do
Issued == spc # "off" /\ call.issued = 1

\* the last Send call has returned
HasReturned == spc = "idle" /\ call.returned

\* C12: for every transport's Send and every options map, the top-level keys
\* of the payload put on the wire are keys of the merged map (the options
\* with the message-derived fields laid over them), no top-level value is an
\* empty string, an empty list, an empty map or nil, and every entry of the
\* merged map whose value is non-empty is in the payload unchanged.
C12_PayloadFiltered ==
    Issued =>
        LET merged == call.prep.options
            payload == call.prep.payload
        IN  /\ DOMAIN payload \subseteq DOMAIN merged
            /\ \A k \in DOMAIN payload : ~isEmptyValue(payload[k])
            /\ \A k \in DOMAIN merged :
                    ~isEmptyValue(merged[k]) =>
                        k \in DOMAIN payload /\ payload[k] = merged[k]

\* the payload key that carries the recipient
RecipientKey(provider) == IF provider = "slack" THEN "channel" ELSE "chat_id"

\* the recipient set in the Options the message holds under the transport's
\* own key, "" when it holds none
OwnRecipient(m, provider) ==
    IF provider \in DOMAIN m.options THEN OptionsRecipientId(m.options[provider])
    ELSE <<>>

\* C14: in Slack and Telegram Send the recipient written to the payload
\* (channel / chat_id) is the non-empty recipient of the Options registered
\* under the transport's own key, otherwise the transport's default channel;
\* Options registered for other transports never change it.
C14_RecipientResolution ==
    (Issued /\ xport.provider \in {"slack", "telegram"}) =>
        Get(call.prep.options, RecipientKey(xport.provider)).s =
            IF OwnRecipient(call.m, xport.provider) # <<>>
            THEN OwnRecipient(call.m, xport.provider)
            ELSE xport.channel

\* C15: for every transport, Send on a message that is not a ChatMessage
\* returns an error and no SentMessage and issues no HTTP request; Supports
\* returns true exactly for ChatMessage values, and Send rejects a message as
\* unsupported exactly when Supports is false for it.
C15_UnsupportedMessage ==
    HasReturned =>
        /\ TransportSupports(call.m) = (call.m.kind = "ChatMessage")
        /\ (call.err.kind = "unsupported message type") = (call.m.kind # "ChatMessage")
        /\ call.m.kind # "ChatMessage" =>
                /\ call.err # NoSendError
                /\ call.sent = NilSentMessage
                /\ call.issued = 0

C15_Witness ==
    /\ HasReturned
    /\ call.m.kind = "OtherMessage"
    /\ call.err.kind = "unsupported message type"
    /\ requests = 0

\* C16: for every transport, a response whose status differs from the
\* provider's success status (204 for Discord, 200 for the others) makes Send
\* return an error that carries the status code and the response body as far
\* as it could be read, and no SentMessage, also when reading the body fails.
C16_FailureStatus ==
    (HasReturned /\ call.issued = 1 /\ call.outcome.err = "nil"
        /\ call.outcome.status # (IF xport.provider = "discord" THEN 204 ELSE 200)) =>
        /\ call.sent = NilSentMessage
        /\ call.err.kind = "API error"
        /\ call.err.status = call.outcome.status
        /\ call.err.body = (IF call.outcome.body.readable
                            THEN call.outcome.body.raw ELSE <<>>)

C16_Witness ==
    /\ HasReturned
    /\ xport.provider = "discord"
    /\ call.outcome.err = "nil"
    /\ call.outcome.status = 200
    /\ call.outcome.body.readable
    /\ call.err.body = call.outcome.body.raw
    /\ call.err.status = 200

\* C17: for every transport, Send returns a SentMessage exactly when it
\* returns a nil error, and only after the provider reported success: the
\* success status, a decodable body where one is decoded (Slack, Telegram,
\* Gotify), and for Slack ok=true; a Slack 200 response with ok=false yields
\* an error containing the API error text and no SentMessage.
C17_SentOnlyOnSuccess ==
    HasReturned =>
        /\ (~call.sent.nil) = (call.err = NoSendError)
        /\ ~call.sent.nil =>
                /\ call.issued = 1
                /\ call.outcome.err = "nil"
                /\ call.outcome.status = (IF xport.provider = "discord" THEN 204 ELSE 200)
                /\ xport.provider \in {"slack", "telegram", "gotify"} =>
                        call.outcome.body.readable /\ call.outcome.body.json
                /\ xport.provider = "slack" => call.outcome.body.ok
        /\ (xport.provider = "slack" /\ call.issued = 1 /\ call.outcome.err = "nil"
                /\ call.outcome.status = 200
                /\ call.outcome.body.readable /\ call.outcome.body.json
                /\ ~call.outcome.body.ok) =>
                /\ call.sent.nil
                /\ call.err.text = call.outcome.body.error

C17_Witness ==
    /\ HasReturned
    /\ xport.provider = "slack"
    /\ call.outcome.err = "nil"
    /\ call.outcome.status = 200
    /\ call.outcome.body.readable /\ call.outcome.body.json
    /\ ~call.outcome.body.ok
    /\ call.err.text = Str("channel_not_found")
    /\ call.sent.nil

\* C18: for every transport that reads an identifier from the response
\* (Slack ts, Telegram result.message_id, Gotify id), a success response that
\* carries no identifier yields a SentMessage whose GetMessageID() is the
\* empty string, and a nil error.
C18_MissingIdentifier ==
    (HasReturned /\ call.issued = 1 /\ call.outcome.err = "nil"
        /\ xport.provider \in {"slack", "telegram", "gotify"}
        /\ call.outcome.status = 200
        /\ call.outcome.body.readable /\ call.outcome.body.json
        /\ call.outcome.body.ok
        /\ call.outcome.body.id = 0 /\ call.outcome.body.ts = <<>>) =>
        /\ call.err = NoSendError
        /\ ~call.sent.nil
        /\ call.sent.messageID = <<>>

\* C19: each Send issues at most one HTTP request: exactly one when the
\* message is supported and the body and the request can be built, none
\* otherwise; no step other than the one call of client.Do adds a request,
\* in particular not the return of a failed request or a failure response.
C19_OneRequestPerSend ==
    [][/\ requests' \in {requests, requests + 1}
       /\ (requests' = requests + 1) =
            (/\ sends' = sends + 1
             /\ smsg.kind = "ChatMessage"
             /\ call'.prep.err = "nil"
             /\ ctx' # "nil")
       /\ call'.issued = (IF requests' = requests + 1 THEN 1
                          ELSE IF sends' = sends + 1 THEN 0 ELSE call.issued)]_vars

C19_Witness ==
    /\ HasReturned
    /\ sends = 2
    /\ requests = 2
    /\ call.err.kind = "API error"

\* C20: when the context is cancelled or its deadline passes before or during
\* the HTTP call (by the time client.Do returns), Send returns an error that
\* carries the cancellation or deadline cause, and no SentMessage; and a Send
\* whose context is done when it returns never returns a SentMessage.
C20_ContextDone ==
    /\ (HasReturned /\ call.issued = 1 /\ call.ctxAtDo \in {"canceled", "deadline"}) =>
            /\ call.sent = NilSentMessage
            /\ call.err # NoSendError
            /\ call.err.cause = call.ctxAtDo
    /\ (HasReturned /\ call.issued = 1 /\ ctx \in {"canceled", "deadline"}) =>
            /\ call.sent = NilSentMessage
            /\ call.err # NoSendError

C20_Witness ==
    /\ HasReturned
    /\ call.issued = 1
    /\ call.ctx = "live"
    /\ call.ctxAtDo = "deadline"
    /\ call.err.kind = "send request"
    /\ call.err.cause = "deadline"

----------------------------------------------------------------------------
(* Properties of the Options builders *)

Min(a, b) == IF a < b THEN a ELSE b

\* the provider's maximum for each collection; for the fields of a Discord
\* embed, which AddField does not limit, the 25 of the Discord API
ProviderMax(b) == IF HasLimit(b) THEN Limit(b) ELSE 25

\* C13: after any sequence of builder calls the repeated collection, in the
\* builder and in the ToMap output, never exceeds its provider maximum (Slack
\* blocks 50, Slack section fields 10, Discord embeds 10, and likewise the
\* fields of a Discord embed), and an add beyond the maximum is a no-op that
\* keeps the earliest entries.
C13_CollectionsBounded ==
    (opc = "building") =>
        /\ Len(items) <= ProviderMax(builder)
        /\ omap.present => Len(omap.list) <= ProviderMax(builder)
        /\ items = [i \in 1..Min(adds, ProviderMax(builder)) |-> i]

\* C30: when a provider factory's Create returns a transport, its Supports
\* is true of the DSN; Create called with a DSN of another scheme returns an
\* error and no transport.
C30_CreateImpliesSupports ==
    (ppc \in {"created", "resolved"}) =>
        /\ created.err = NoError => FactorySupports(factory, parsed.dsn)
        /\ parsed.dsn.scheme # Str(factory) =>
                (created.err # NoError /\ created.tr = NilTransport)

\* the telegram factory's Create has rejected a slack DSN that has the token
\* it asks for
C30_Witness ==
    /\ ppc = "created"
    /\ factory = "telegram"
    /\ parsed.dsn.scheme = Str("slack")
    /\ parsed.dsn.user # <<>>
    /\ created.err # NoError
    /\ created.tr = NilTransport

----------------------------------------------------------------------------
(* Properties of NewDSN *)

\* "k1=v1&k2=v2..." from GetOptions(), the keys in some order
RECURSIVE QueryOf(_)
QueryOf(options) ==
    IF DOMAIN options = {} THEN <<>>
    ELSE LET k == CHOOSE x \in DOMAIN options : TRUE
             rest == [x \in DOMAIN options \ {k} |-> options[x]]
         IN  k \o <<"=">> \o options[k]
                \o (IF DOMAIN rest = {} THEN <<>> ELSE <<"&">> \o QueryOf(rest))

\* the connection string rebuilt from GetScheme, GetUser / GetPassword,
\* GetHost, GetPort and GetOptions in the format
\* scheme://[user[:password]@]host[:port][?key=value&...]
Rebuild(d) ==
    d.scheme \o <<":", "/", "/">>
        \o (IF d.user = <<>> /\ d.password = <<>> THEN <<>>
            ELSE d.user \o (IF d.password = <<>> THEN <<>> ELSE <<":">> \o d.password)
                    \o <<"@">>)
        \o d.host
        \o (IF GetPort(d) > 0 THEN <<":", Itoa(GetPort(d))>> ELSE <<>>)
        \o (IF DOMAIN d.options = {} THEN <<>> ELSE <<"?">> \o QueryOf(d.options))

\* C24: for every connection string NewDSN accepts, the string rebuilt from
\* the getters parses again to the same scheme, host, port and option set,
\* and those components are the ones written in the input: the scheme as
\* written before "://" and every key=value pair written in the query.
C24_DSNRoundTrip ==
    (ppc # "start" /\ ppc # "off" /\ parsed.err = NoError) =>
        LET d == parsed.dsn
            again == NewDSN(Rebuild(d))
            written == ParseQuery(UrlParse(input).rawQuery, EmptyMap)
        IN  /\ again.err = NoError
            /\ again.dsn.scheme = d.scheme
            /\ again.dsn.host = d.host
            /\ again.dsn.port = d.port
            /\ again.dsn.options = d.options
            /\ d.scheme = Str(input[1])
            /\ \A k \in DOMAIN written : \A i \in 1..Len(written[k]) :
                    k \in DOMAIN d.options /\ d.options[k] = written[k][i]

----------------------------------------------------------------------------
(* Properties of the Options objects *)

\* C25: for every Options object a message carries (slack, discord,
\* telegram, gotify, teams, and slack UpdateMessageOptions), a second ToMap
\* call returns a payload equal to the first call's and leaves the object as
\* the first call left it.
C25_ToMapIdempotent ==
    \A k \in DOMAIN smsg.options :
        LET o == smsg.options[k]
            first == [ret |-> ToMap(o), obj |-> [o EXCEPT !.options = ToMap(o)]]
            second == [ret |-> ToMap(first.obj),
                       obj |-> [first.obj EXCEPT !.options = ToMap(first.obj)]]
        IN  second = first

\* a Send has called ToMap on an Options object with a non-empty collection,
\* which stored the collection in the map
C25_Witness ==
    /\ HasReturned
    /\ \E k \in DOMAIN smsg.options :
            /\ smsg.options[k].coll.n > 0
            /\ CollectionKey(smsg.options[k].otype) \in DOMAIN smsg.options[k].options
            /\ CollectionKey(call.m.options[k].otype) \notin DOMAIN call.m.options[k].options

----------------------------------------------------------------------------
(* Properties of repeated Send calls *)

\* the requests a Send of m through t can issue: one for each recipient
\* GetRecipientId may return
SendRequests(t, m) ==
    {[err |-> Prepare(t, m, rid).err, method |-> Prepare(t, m, rid).method,
      payload |-> Prepare(t, m, rid).payload,
      multipart |-> Prepare(t, m, rid).multipart] : rid \in GetRecipientIds(m)}

\* C21: a Send leaves the transport's configuration as it was, and after it
\* the message, sent through the same transport or another transport of the
\* same provider, selects the same operation and produces the same payload as
\* it would have before the Send.
C21_NoStatePersists ==
    [][/\ xport' = xport
       /\ \A t \in Xports :
            t.provider = xport.provider => SendRequests(t, smsg') = SendRequests(t, smsg)]_vars

----------------------------------------------------------------------------
(* Properties of the operation Send selects *)

\* C26: slack Send selects chat.scheduleMessage when the merged options hold
\* the key post_at, otherwise chat.update when they hold the key ts,
\* otherwise chat.postMessage; with both keys the method is
\* chat.scheduleMessage and Send goes on to its request.
C26_SlackMethod ==
    (xport.provider = "slack" /\ call.m.kind = "ChatMessage") =>
        /\ call.prep.method =
                (IF "post_at" \in DOMAIN call.prep.options THEN "chat.scheduleMessage"
                 ELSE IF "ts" \in DOMAIN call.prep.options THEN "chat.update"
                 ELSE "chat.postMessage")
        /\ ({"post_at", "ts"} \subseteq DOMAIN call.prep.options /\ call.ctx # "nil") =>
                call.issued = 1

\* a slack Send whose options held both keys has issued its request
C26_Witness ==
    /\ xport.provider = "slack"
    /\ call.issued = 1
    /\ {"post_at", "ts"} \subseteq DOMAIN call.prep.options
    /\ call.prep.method = "chat.scheduleMessage"

\* the hints of the telegram Options object the call was given: the keys
\* Location, Venue and Contact set, and the field UploadPhoto / UploadDocument
\* / ... stored the file path under
TelegramHints(m) ==
    IF ~HasOwnOptions(m, "telegram") THEN {}
    ELSE (DOMAIN m.options["telegram"].options \cap {"location", "venue", "contact"})
            \cup (IF m.options["telegram"].coll.n > 0
                  THEN {m.options["telegram"].coll.s[1]} ELSE {})

\* C27: a telegram Send whose message's options hold a specialised hint
\* (location, venue, contact or a local file upload) sends to the matching
\* endpoint (sendLocation, sendVenue, sendContact, sendPhoto) and not to
\* sendMessage.
C27_TelegramEndpoint ==
    (xport.provider = "telegram" /\ call.issued = 1) =>
        \A h \in TelegramHints(call.m) :
            call.prep.method =
                (CASE h = "location" -> "sendLocation"
                   [] h = "venue" -> "sendVenue"
                   [] h = "contact" -> "sendContact"
                   [] OTHER -> "sendPhoto")

\* C28: a message whose "slack" options are an UpdateMessageOptions built
\* with NewUpdateMessageOptions(channel, messageId) is sent by slack Send to
\* chat.update, with ts = messageId and channel = channel in the payload.
C28_SlackUpdateMessage ==
    (/\ xport.provider = "slack"
     /\ call.issued = 1
     /\ "slack" \in DOMAIN call.m.options
     /\ call.m.options["slack"].otype = "slack.UpdateMessageOptions") =>
        /\ call.prep.method = "chat.update"
        /\ Get(call.prep.payload, "ts") = StringValue(call.m.options["slack"].messageId)
        /\ Get(call.prep.payload, "channel") = StringValue(call.m.options["slack"].channel)

----------------------------------------------------------------------------
(* Properties of concurrent Send calls *)

\* the request a call prepared
RequestOf(prep) ==
    [err |-> prep.err, method |-> prep.method, payload |-> prep.payload,
     multipart |-> prep.multipart]

\* C22: in every interleaving of concurrent Send calls on one transport, no
\* two calls are about to write the same Options map at the same time, the
\* process is not ended by the runtime, and each call that reached its
\* request issues a request it could issue when run alone on the message.
C22_ConcurrentSendSafe ==
    /\ \A p, q \in Goroutines : p # q => ~(WritesOptions(p) /\ WritesOptions(q))
    /\ \A p \in Goroutines : gpc[p] # "crashed"
    /\ \A p \in Goroutines :
            (gpc[p] \in {"do", "done"} /\ TransportSupports(gloc[p].m)) =>
                RequestOf(gloc[p].prep) \in SendRequests(xport, gloc[p].m)

====
